---- MODULE Spec2Model ----
(***************************************************************************)
(* The 3D Connect-Four engine of static/js/gameLogic.js (class             *)
(* ConnectFour3D) as a state machine.                                      *)
(*                                                                         *)
(* A board is the nested array state[z][y][x] (z = depth, y = row,         *)
(* x = col), modelled as nested functions over 0..3 with cells in          *)
(* {-1, 0, 1}.  JavaScript arrays produced by flat()/map() are modelled as *)
(* sequences; At(arr, i) is the 0-based JavaScript index arr[i].           *)
(* A BigInt bit mask is modelled as the set of its set bit positions:      *)
(* (a | b) is a \cup b, (a & b) is a \cap b, === is set equality.          *)
(* Board snapshots live in a heap of objects (heap[ref] is the content of  *)
(* the array object ref), so that copying and aliasing are visible.        *)
(***************************************************************************)
EXTENDS Integers, Sequences, FiniteSets, TLC

VARIABLES
    winningPatterns,  \* this._winningPatterns: the table (an array of masks)
    genK,             \* position of _generateWinningPatterns' nested loops
    genPatterns,      \* its local Set `patterns`, in insertion order
    heap,             \* the board objects: heap[ref] is a 4x4x4 array
    snapshots,        \* the references the caller holds, oldest first
    moves,            \* the action that produced each snapshot after the first
    ncalls,           \* getNextState calls since the position was set up
    threw,            \* whether the last call raised an Error
    loaded,           \* the move list the position was set up from
    calls,            \* every action passed to getNextState since, in order
    answers,          \* what the caller's last round of queries returned
    \* the page (main.js) and the server it talks to
    uiBoardState,        \* boardState
    moveHistory,         \* moveHistory
    currentMoveIndex,    \* currentMoveIndex
    isRequestInProgress, \* isRequestInProgress
    newGameBtnDisabled,  \* NEW_GAME_BTN.disabled
    aiMoveBtnDisabled,   \* AI_MOVE_BTN.disabled
    statusMessage,       \* STATUS_MSG.textContent, the last message logged
    newGamePhase,        \* startNewGame: "idle", or "waiting" at its await
    aiPhase,             \* requestAIMove: "idle", "delay" or "move" (/api/ai_move sent)
    aiSyncOk,            \* whether the /api/set_state of that request was answered ok
    loadPhase,           \* handleMoveInputChange: "idle", or the answer on its way
    serverBoard,         \* the board the server holds
    serverHistory,       \* the move history the server holds
    uiPlayed,            \* moves added since the last new game or load
    displayedBoard,      \* the board whose pieces updateBoard drew last
    movePhase            \* static/js/main.js, the page that asks the server for
                         \* every move: the await its handler is at, and the column

uiVars == <<uiBoardState, moveHistory, currentMoveIndex, isRequestInProgress,
            newGameBtnDisabled, aiMoveBtnDisabled, statusMessage, newGamePhase, aiPhase,
            aiSyncOk, loadPhase, serverBoard, serverHistory, uiPlayed, displayedBoard,
            movePhase>>

engineVars == <<winningPatterns, genK, genPatterns, heap, snapshots, moves, ncalls, threw,
                loaded, calls, answers>>

vars == <<engineVars, uiVars>>

(***************************************************************************)
(* Dimensions (constructor).                                               *)
(***************************************************************************)
rows == 4
cols == 4
depth == 4
numCells == depth * rows * cols
numColumns == rows * cols
numActions == rows * cols

\* Bound of the model: getNextState calls made on one set-up position.
MaxCalls == 2

Zs == 0 .. (depth - 1)
Ys == 0 .. (rows - 1)
Xs == 0 .. (cols - 1)

\* The index triples (z, y, x) of gridShape.
Cells == Zs \X Ys \X Xs

\* arr[i] of a JavaScript array held as a sequence.
At(arr, i) == arr[i + 1]

(***************************************************************************)
(* _generateWinningPatterns                                                *)
(***************************************************************************)
\* The direction list with its last space diagonal left out.
directionsTwelve ==
    << <<1, 0, 0>>, <<0, 1, 0>>, <<0, 0, 1>>,
       <<1, 1, 0>>, <<1, -1, 0>>, <<1, 0, 1>>,
       <<1, 0, -1>>, <<0, 1, 1>>, <<0, 1, -1>>,
       <<1, 1, 1>>, <<1, -1, 1>>, <<1, 1, -1>> >>

\* Thirteen directions, one of them the reverse of another.
directionsWithReverse ==
    << <<1, 0, 0>>, <<0, 1, 0>>, <<0, 0, 1>>,
       <<1, 1, 0>>, <<1, -1, 0>>, <<1, 0, 1>>,
       <<1, 0, -1>>, <<0, 1, 1>>, <<0, 1, -1>>,
       <<1, 1, 1>>, <<1, -1, 1>>, <<1, 1, -1>>, <<-1, 0, 0>> >>

directions ==
    << <<1, 0, 0>>, <<0, 1, 0>>, <<0, 0, 1>>,
       <<1, 1, 0>>, <<1, -1, 0>>, <<1, 0, 1>>,
       <<1, 0, -1>>, <<0, 1, 1>>, <<0, 1, -1>>,
       <<1, 1, 1>>, <<1, -1, 1>>, <<1, 1, -1>>, <<1, -1, -1>> >>

\* Set.prototype.add on a Set kept in insertion order.
SetAdd(patterns, mask) ==
    IF \E i \in 1 .. Len(patterns) : patterns[i] = mask
    THEN patterns
    ELSE Append(patterns, mask)

\* A mask of the first three cells of the line.
lineMaskOfThree(x, y, z, dx, dy, dz) ==
    { (z + i * dz) * numColumns + (y + i * dy) * cols + (x + i * dx) : i \in 0 .. 2 }

\* The mask built by the inner loop over i: bits nz*16 + ny*4 + nx.
lineMask(x, y, z, dx, dy, dz) ==
    { (z + i * dz) * numColumns + (y + i * dy) * cols + (x + i * dx) : i \in 0 .. 3 }

\* The end-cell test with the lower bounds left out.
endBelowUpperBounds(endX, endY, endZ) ==
    /\ endX < cols
    /\ endY < rows
    /\ endZ < depth

\* The test on the line's end cell.
endInBounds(endX, endY, endZ) ==
    /\ endX >= 0 /\ endX < cols
    /\ endY >= 0 /\ endY < rows
    /\ endZ >= 0 /\ endZ < depth

\* The body of the innermost `for (const [dx, dy, dz] of directions)`.
genBody(patterns, z, y, x, dir) ==
    LET dx == dir[1]
        dy == dir[2]
        dz == dir[3]
    IN  IF endInBounds(x + 3 * dx, y + 3 * dy, z + 3 * dz)
        THEN SetAdd(patterns, lineMask(x, y, z, dx, dy, dz))
        ELSE patterns

\* Number of iterations of the four nested loops.
genIterations == depth * rows * cols * Len(directions)

\* Iteration k of the nested loops (z outermost, the direction innermost).
genIteration(patterns, k) ==
    LET nd == Len(directions)
    IN  genBody(patterns,
                k \div (rows * cols * nd),
                (k \div (cols * nd)) % rows,
                (k \div nd) % cols,
                directions[(k % nd) + 1])

\* Iterations lo .. hi - 1 in order (split in halves to keep the evaluation
\* shallow).
RECURSIVE genRange(_, _, _)
genRange(patterns, lo, hi) ==
    IF lo >= hi THEN patterns
    ELSE IF hi = lo + 1 THEN genIteration(patterns, lo)
    ELSE LET mid == (lo + hi) \div 2
             first == genRange(patterns, lo, mid)
         IN  IF Len(first) >= 0 THEN genRange(first, mid, hi) ELSE first

\* The value returned: Array.from(patterns).
generateWinningPatterns == genRange(<<>>, 0, genIterations)

(***************************************************************************)
(* Board queries                                                           *)
(***************************************************************************)
getInitialState == [z \in Zs |-> [y \in Ys |-> [x \in Xs |-> 0]]]

\* The page as init() leaves it, and a server that holds a new game.
UIInit ==
    /\ uiBoardState = getInitialState
    /\ moveHistory = <<>>
    /\ currentMoveIndex = 0
    /\ isRequestInProgress = FALSE
    /\ newGameBtnDisabled = FALSE
    /\ aiMoveBtnDisabled = FALSE
    /\ statusMessage = ""
    /\ newGamePhase = "idle"
    /\ aiPhase = "idle"
    /\ aiSyncOk = FALSE
    /\ loadPhase = "idle"
    /\ serverBoard = getInitialState
    /\ serverHistory = <<>>
    /\ uiPlayed = 0
    /\ displayedBoard = getInitialState
    /\ movePhase = [at |-> "idle", column |-> 0]

\* A flattening that runs down the columns of the layer instead of along its rows.
flatTransposed(layer) ==
    [k \in 1 .. (rows * cols) |-> layer[(k - 1) % rows][(k - 1) \div rows]]

\* layer.flat(): the rows of a layer, one after the other.
flat(layer) == [k \in 1 .. (rows * cols) |-> layer[(k - 1) \div cols][(k - 1) % cols]]

\* state.flat(2).filter(p => p === v).length: the number of cells that hold v
\* (the order in which flat(2) lists the cells does not matter to the count).
countCells(state, v) == Cardinality({c \in Cells : state[c[1]][c[2]][c[3]] = v})

\* A count of PlayerOne's pieces only.
getNumPiecesOfPlayerOne(state) == countCells(state, 1)

getNumPieces(state) == numCells - countCells(state, 0)

\* The side to move with >= written for ===.
getCurrentPlayerAtLeast(state) ==
    IF countCells(state, 1) >= countCells(state, -1) THEN 1 ELSE -1

getCurrentPlayer(state) ==
    IF countCells(state, 1) = countCells(state, -1) THEN 1 ELSE -1

\* getValidMoves reading the bottom layer.
getValidMovesOfBottom(state) ==
    LET bottom == flat(state[depth - 1])
    IN  [k \in 1 .. Len(bottom) |-> IF bottom[k] = 0 THEN 1 ELSE 0]

getValidMoves(state) ==
    LET top == flat(state[0])
    IN  [k \in 1 .. Len(top) |-> IF top[k] = 0 THEN 1 ELSE 0]

createBitboard(state, player) ==
    { c[1] * numColumns + c[2] * cols + c[3] :
        c \in {c \in Cells : state[c[1]][c[2]][c[3]] = player} }

\* The flip written with the number of layers in place of the top index.
createBitboardFlippedByDepth(state, player) ==
    { (depth - c[1]) * numColumns + c[2] * cols + c[3] :
        c \in {c \in Cells : state[c[1]][c[2]][c[3]] = player} }

\* _createBitboardFlipped numbering the cells of a column alike.
createBitboardFlippedOneLayer(state, player) ==
    { c[2] * cols + c[3] :
        c \in {c \in Cells : state[c[1]][c[2]][c[3]] = player} }

\* _createBitboardFlipped setting the bit of every occupied cell.
createBitboardFlippedAnyPiece(state, player) ==
    { (3 - c[1]) * numColumns + c[2] * cols + c[3] :
        c \in {c \in Cells : state[c[1]][c[2]][c[3]] # 0} }

createBitboardFlipped(state, player) ==
    { (3 - c[1]) * numColumns + c[2] * cols + c[3] :
        c \in {c \in Cells : state[c[1]][c[2]][c[3]] = player} }

\* The digits of BigInt.prototype.toString(16).
HexDigits ==
    <<"0", "1", "2", "3", "4", "5", "6", "7", "8", "9", "a", "b", "c", "d", "e", "f">>

\* The value of the four bits 4*k .. 4*k+3 of a non-negative BigInt.
nibble(big, k) ==
    (IF 4 * k \in big THEN 1 ELSE 0) + (IF 4 * k + 1 \in big THEN 2 ELSE 0)
    + (IF 4 * k + 2 \in big THEN 4 ELSE 0) + (IF 4 * k + 3 \in big THEN 8 ELSE 0)

\* big.toString(16) for a non-negative BigInt: its hexadecimal digits, the
\* most significant first, with no leading zero ("0" for 0n).  A string is a
\* sequence of characters.
toString16(big) ==
    LET top == IF big = {} THEN 0 ELSE CHOOSE b \in big : \A b2 \in big : b2 <= b
        n == (top \div 4) + 1
    IN  [j \in 1 .. n |-> HexDigits[nibble(big, n - j) + 1]]

\* str.padStart(targetLength, padString) for a padString of one character:
\* a string that is long enough is returned as it is.
padStart(str, targetLength, padString) ==
    IF Len(str) >= targetLength
    THEN str
    ELSE [j \in 1 .. targetLength - Len(str) |-> padString] \o str

\* The export with PlayerTwo's word first.
getStateHexCodeSwapped(state) ==
    LET player1Bitboard == createBitboardFlipped(state, 1)
        player2Bitboard == createBitboardFlipped(state, -1)
        p1Hex == padStart(toString16(player1Bitboard), 16, "0")
        p2Hex == padStart(toString16(player2Bitboard), 16, "0")
    IN  p2Hex \o <<" ">> \o p1Hex

getStateHexCode(state) ==
    LET player1Bitboard == createBitboardFlipped(state, 1)
        player2Bitboard == createBitboardFlipped(state, -1)
        p1Hex == padStart(toString16(player1Bitboard), 16, "0")
        p2Hex == padStart(toString16(player2Bitboard), 16, "0")
    IN  p1Hex \o <<" ">> \o p2Hex

\* The containment test written as a truthiness test of (bitboard & pattern).
maskOverlaps(bitboard, pattern) == (bitboard \cap pattern) # {}

\* (bitboard & pattern) === pattern
maskContained(bitboard, pattern) == (bitboard \cap pattern) = pattern

\* checkWin looking at the bitboard of the side to move.
checkWinOfMover(wp, state) ==
    LET lastPlayer == getCurrentPlayer(state)
        playerBitboard == createBitboard(state, lastPlayer)
    IN  \E i \in 1 .. Len(wp) : maskContained(playerBitboard, wp[i])

checkWin(wp, state) ==
    LET lastPlayer == -getCurrentPlayer(state)
        playerBitboard == createBitboard(state, lastPlayer)
    IN  \E i \in 1 .. Len(wp) : maskContained(playerBitboard, wp[i])

\* checkGameOver looking at the bitboard of the side to move only.
checkGameOverCurrentOnly(wp, state) ==
    LET currentPlayer == getCurrentPlayer(state)
        currentPlayerBitboard == createBitboard(state, currentPlayer)
    IN  \/ \E i \in 1 .. Len(wp) : maskContained(currentPlayerBitboard, wp[i])
        \/ getNumPieces(state) = numCells

\* checkGameOver looking at the bitboard of the side that moved last only.
checkGameOverLastOnly(wp, state) ==
    LET lastPlayer == -getCurrentPlayer(state)
        lastPlayerBitboard == createBitboard(state, lastPlayer)
    IN  \/ \E i \in 1 .. Len(wp) : maskContained(lastPlayerBitboard, wp[i])
        \/ getNumPieces(state) = numCells

checkGameOver(wp, state) ==
    LET lastPlayer == -getCurrentPlayer(state)
        currentPlayer == getCurrentPlayer(state)
        lastPlayerBitboard == createBitboard(state, lastPlayer)
        currentPlayerBitboard == createBitboard(state, currentPlayer)
    IN  \/ \E i \in 1 .. Len(wp) :
              \/ maskContained(lastPlayerBitboard, wp[i])
              \/ maskContained(currentPlayerBitboard, wp[i])
        \/ getNumPieces(state) = numCells

getValueAndTerminated(wp, state) ==
    IF checkGameOver(wp, state) THEN <<-1, TRUE>>
    ELSE IF \A k \in 1 .. Len(getValidMoves(state)) : getValidMoves(state)[k] = 0
         THEN <<0, TRUE>>
         ELSE <<0, FALSE>>

(***************************************************************************)
(* Construction of the table, one loop iteration per step.                 *)
(***************************************************************************)
InitGen ==
    /\ winningPatterns = <<>>
    /\ genK = 0
    /\ genPatterns = <<>>
    /\ heap = <<>>
    /\ snapshots = <<>>
    /\ moves = <<>>
    /\ ncalls = 0
    /\ threw = FALSE
    /\ loaded = <<>>
    /\ calls = <<>>
    /\ answers = <<>>
    /\ UIInit

GenStep ==
    /\ genK < genIterations
    /\ genPatterns' = genIteration(genPatterns, genK)
    /\ genK' = genK + 1
    /\ UNCHANGED <<winningPatterns, heap, snapshots, moves, ncalls, threw, loaded, calls,
                   answers>>
    /\ UNCHANGED uiVars

\* return Array.from(patterns), assigned to this._winningPatterns.
GenReturn ==
    /\ genK = genIterations
    /\ genK' = genIterations + 1
    /\ winningPatterns' = genPatterns
    /\ genPatterns' = <<>>
    /\ UNCHANGED <<heap, snapshots, moves, ncalls, threw, loaded, calls, answers>>
    /\ UNCHANGED uiVars

NextGen == GenStep \/ GenReturn

SpecGen == InitGen /\ [][NextGen]_vars

(***************************************************************************)
(* Move application                                                        *)
(***************************************************************************)
\* _actionToCoords with row and col exchanged.
actionToCoordsSwapped(action) ==
    IF action < 0 \/ action >= numActions
    THEN [ok |-> FALSE, row |-> 0, col |-> 0]
    ELSE [ok |-> TRUE, row |-> action % cols, col |-> action \div cols]

\* An action out of range taken as the nearest column instead of an Error.
actionToCoordsClamped(action) ==
    LET a == IF action < 0 THEN 0
             ELSE IF action >= numActions THEN numActions - 1
             ELSE action
    IN  [ok |-> TRUE, row |-> a \div cols, col |-> a % cols]

\* _actionToCoords: ok = FALSE stands for the thrown Error.
actionToCoords(action) ==
    IF action < 0 \/ action >= numActions
    THEN [ok |-> FALSE, row |-> 0, col |-> 0]
    ELSE [ok |-> TRUE, row |-> action \div cols, col |-> action % cols]

\* The scan run from depth 0 downwards: the first Empty depth from the top.
scanFromTop(state, row, col, d) ==
    IF \E e \in 0 .. d : state[e][row][col] = 0
    THEN CHOOSE e \in 0 .. d :
            /\ state[e][row][col] = 0
            /\ \A e2 \in 0 .. (e - 1) : state[e2][row][col] # 0
    ELSE -1

\* A scan that ends on the top cell when it finds no Empty cell.
scanColumnOrTop(state, row, col, d) ==
    IF \E e \in 0 .. d : state[e][row][col] = 0
    THEN CHOOSE e \in 0 .. d :
            /\ state[e][row][col] = 0
            /\ \A e2 \in (e + 1) .. d : state[e2][row][col] # 0
    ELSE 0

\* The scan `for (let d = this.depth - 1; d >= 0; d--)`, entered at d: the
\* first depth at which the column is Empty, or -1.
RECURSIVE scanColumn(_, _, _, _)
scanColumn(state, row, col, d) ==
    IF d < 0 THEN -1
    ELSE IF state[d][row][col] = 0 THEN d
    ELSE scanColumn(state, row, col, d - 1)

\* No copy at all: nextState is the very object passed in.
aliasCopy(h, state) == [heap |-> h, ref |-> state]

\* JSON.parse(JSON.stringify(state)): a new object with the same content.
deepCopy(h, state) == [heap |-> Append(h, h[state]), ref |-> Len(h) + 1]

\* getNextState on the heap h, `state` being a reference into it.  The result
\* is the heap after the call and either the reference returned (ret) or the
\* fact that the call threw.  The copy leaves the object `state` as it is, so
\* the reads of state[d][row][col] and getCurrentPlayer(state) are taken from h.
getNextState(h, state, action) ==
    LET copy == deepCopy(h, state)
        h1 == copy.heap
        nextState == copy.ref
        coords == actionToCoords(action)
    IN  IF ~coords.ok
        THEN [heap |-> h1, threw |-> TRUE, ret |-> 0]
        ELSE LET d == scanColumn(h[state], coords.row, coords.col, depth - 1)
             IN  [heap |-> IF d # -1
                           THEN [h1 EXCEPT ![nextState][d][coords.row][coords.col] =
                                               getCurrentPlayer(h[state])]
                           ELSE h1,
                  threw |-> FALSE,
                  ret |-> nextState]

\* The board getNextState returns for a board given by value and an action
\* in range.
applyMove(state, action) ==
    LET r == getNextState(<<state>>, 1, action)
    IN  r.heap[r.ret]

\* The loop's variables as getStateFromMoves enters it.
replayStart ==
    [state |-> getInitialState, appliedMoves |-> <<>>, done |-> FALSE, threw |-> FALSE]

\* An iteration that skips a move it cannot apply and goes on.
replayStepContinue(wp, acc, action) ==
    IF acc.done THEN acc
    ELSE IF ~(action >= 0 /\ action < numActions)
    THEN acc
    ELSE IF At(getValidMoves(acc.state), action) = 0
    THEN acc
    ELSE LET r == getNextState(<<acc.state>>, 1, action)
         IN  IF r.threw
             THEN [acc EXCEPT !.done = TRUE, !.threw = TRUE]
             ELSE [state |-> r.heap[r.ret],
                   appliedMoves |-> Append(acc.appliedMoves, action),
                   done |-> checkGameOver(wp, r.heap[r.ret]),
                   threw |-> FALSE]

\* An iteration that does not look whether the game is over.
replayStepNoStop(wp, acc, action) ==
    IF acc.done THEN acc
    ELSE IF ~(action >= 0 /\ action < numActions)
    THEN [acc EXCEPT !.done = TRUE]
    ELSE IF At(getValidMoves(acc.state), action) = 0
    THEN [acc EXCEPT !.done = TRUE]
    ELSE LET r == getNextState(<<acc.state>>, 1, action)
         IN  IF r.threw
             THEN [acc EXCEPT !.done = TRUE, !.threw = TRUE]
             ELSE [state |-> r.heap[r.ret],
                   appliedMoves |-> Append(acc.appliedMoves, action),
                   done |-> FALSE,
                   threw |-> FALSE]

\* One iteration of the loop of getStateFromMoves; done records a `break`
\* or an Error raised by getNextState, which ends the loop as well.
replayStep(wp, acc, action) ==
    IF acc.done THEN acc
    ELSE IF ~(action >= 0 /\ action < numActions)
    THEN [acc EXCEPT !.done = TRUE]
    ELSE IF At(getValidMoves(acc.state), action) = 0
    THEN [acc EXCEPT !.done = TRUE]
    ELSE LET r == getNextState(<<acc.state>>, 1, action)
         IN  IF r.threw
             THEN [acc EXCEPT !.done = TRUE, !.threw = TRUE]
             ELSE [state |-> r.heap[r.ret],
                   appliedMoves |-> Append(acc.appliedMoves, action),
                   done |-> checkGameOver(wp, r.heap[r.ret]),
                   threw |-> FALSE]

\* The iterations for moveList[lo .. hi] in order (split in halves to keep the
\* evaluation shallow).
RECURSIVE replayRange(_, _, _, _, _)
replayRange(wp, moveList, acc, lo, hi) ==
    IF lo > hi THEN acc
    ELSE IF lo = hi THEN replayStep(wp, acc, moveList[lo])
    ELSE LET mid == (lo + hi) \div 2
             first == replayRange(wp, moveList, acc, lo, mid)
         IN  IF first.done
             THEN first
             ELSE replayRange(wp, moveList, first, mid + 1, hi)

getStateFromMovesShort(wp, moveList) ==
    LET r == replayRange(wp, moveList, replayStart, 1, Len(moveList) - 1)
    IN  [state |-> r.state, appliedMoves |-> r.appliedMoves, threw |-> r.threw]

getStateFromMoves(wp, moveList) ==
    LET r == replayRange(wp, moveList, replayStart, 1, Len(moveList))
    IN  [state |-> r.state, appliedMoves |-> r.appliedMoves, threw |-> r.threw]

\* The cell whose top-layer entry was looked at, whatever lies below it.
getLandingPositionTop(state, action) ==
    IF ~(action >= 0 /\ action < numActions) THEN [threw |-> FALSE, ret |-> <<>>]
    ELSE IF At(getValidMoves(state), action) = 0 THEN [threw |-> FALSE, ret |-> <<>>]
    ELSE LET coords == actionToCoords(action)
         IN  [threw |-> ~coords.ok, ret |-> <<0, coords.row, coords.col>>]

\* Without the range test: validMoves[action] is undefined for an action out
\* of range, which is not === 0, and _actionToCoords raises.
getLandingPositionNoRange(state, action) ==
    IF (action >= 0 /\ action < numActions) /\ At(getValidMoves(state), action) = 0
    THEN [threw |-> FALSE, ret |-> <<>>]
    ELSE LET coords == actionToCoords(action)
         IN  IF ~coords.ok
             THEN [threw |-> TRUE, ret |-> <<>>]
             ELSE LET d == scanColumn(state, coords.row, coords.col, depth - 1)
                  IN  [threw |-> FALSE,
                       ret |-> IF d # -1 THEN <<d, coords.row, coords.col>> ELSE <<>>]

\* ret is <<>> for null and <<d, row, col>> otherwise; threw records an Error
\* raised by _actionToCoords.
getLandingPosition(state, action) ==
    IF ~(action >= 0 /\ action < numActions) THEN [threw |-> FALSE, ret |-> <<>>]
    ELSE IF At(getValidMoves(state), action) = 0 THEN [threw |-> FALSE, ret |-> <<>>]
    ELSE LET coords == actionToCoords(action)
         IN  IF ~coords.ok
             THEN [threw |-> TRUE, ret |-> <<>>]
             ELSE LET d == scanColumn(state, coords.row, coords.col, depth - 1)
                  IN  [threw |-> FALSE,
                       ret |-> IF d # -1 THEN <<d, coords.row, coords.col>> ELSE <<>>]

(***************************************************************************)
(* The move lists given to getStateFromMoves.                              *)
(***************************************************************************)
\* A complete game of 64 moves in which no line is ever completed.
DrawGame ==
    << 3, 0, 5, 1, 7, 2, 9, 4, 10, 6, 12, 8, 14, 11, 15, 13,
       0, 2, 1, 3, 5, 4, 6, 8, 7, 10, 9, 12, 11, 13, 15, 14,
       0, 1, 3, 2, 6, 4, 7, 5, 8, 9, 10, 12, 11, 14, 13, 15,
       2, 0, 4, 1, 5, 3, 6, 7, 8, 9, 11, 10, 13, 12, 14, 15 >>

MoveLists ==
    { <<>>,
      \* 3 completes a row for PlayerOne; 5 then completes a column for PlayerTwo
      <<0, 5, 1, 5, 2, 5>>,
      \* 15 completes a space diagonal for PlayerOne and fills the column
      <<0, 5, 5, 10, 15, 10, 10, 15, 1, 15>>,
      \* the drawn game, the last MaxCalls moves left to play
      SubSeq(DrawGame, 1, Len(DrawGame) - MaxCalls) }

\* The move lists of the replay specification: lists that replay in full,
\* one with an action out of range, one that goes on after a completed line
\* and one that goes on after its column is full.
ReplayLists ==
    { <<>>,
      <<0, 5, 1, 5, 2, 5>>,
      <<5, 20, 3>>,
      <<0, 4, 1, 5, 2, 6, 3, 7>>,
      <<9, 9, 9, 9, 9, 2>> }

\* The move lists of the caller that plays on after the end: three in a line
\* for both players, the drawn game, and the drawn game with its last move
\* left to play.
EndLists ==
    { <<0, 5, 1, 5, 2, 5>>,
      DrawGame,
      SubSeq(DrawGame, 1, Len(DrawGame) - 1) }

\* The loop of getStateFromMoves run over each list, with the table as
\* constructed: the loop's variables as it ends.
replayLoopTable ==
    [ml \in MoveLists \cup ReplayLists \cup EndLists |->
        replayRange(generateWinningPatterns, ml, replayStart, 1, Len(ml))]

\* getStateFromMoves of each list, with the table as constructed.
replayTable ==
    [ml \in MoveLists \cup ReplayLists \cup EndLists |->
        [state |-> replayLoopTable[ml].state,
         appliedMoves |-> replayLoopTable[ml].appliedMoves,
         threw |-> replayLoopTable[ml].threw]]

(***************************************************************************)
(* The engine in use: a caller that keeps every snapshot it was given.     *)
(***************************************************************************)
\* The actions a caller passes: every column, and one value off each end.
Actions == -1 .. numActions

Init ==
    /\ winningPatterns = generateWinningPatterns
    /\ genK = genIterations + 1
    /\ genPatterns = <<>>
    /\ heap = <<getInitialState>>
    /\ snapshots = <<1>>
    /\ moves = <<>>
    /\ ncalls = 0
    /\ threw = FALSE
    /\ loaded = <<>>
    /\ calls = <<>>
    /\ answers = <<>>
    /\ UIInit

\* The caller's current board (a reference) and its content.
boardRef == snapshots[Len(snapshots)]
boardState == heap[boardRef]

\* boardState = game.getNextState(boardState, action), the earlier snapshots
\* being kept.
\* A caller that makes a call with every step and empties the table as it
\* goes.
PlayUpToShiftingTable(limit, action) ==
    /\ ncalls < limit
    /\ ncalls' = ncalls + 1
    /\ calls' = Append(calls, action)
    /\ answers' = <<>>
    /\ LET r == getNextState(heap, boardRef, action)
       IN  /\ heap' = r.heap
           /\ threw' = r.threw
           /\ IF r.threw
              THEN UNCHANGED <<snapshots, moves>>
              ELSE /\ snapshots' = Append(snapshots, r.ret)
                   /\ moves' = Append(moves, action)
    /\ winningPatterns' = Tail(winningPatterns)
    /\ UNCHANGED <<genK, genPatterns, loaded>>
    /\ UNCHANGED uiVars

\* The call with at most `limit` calls made since the position was set up.
PlayUpTo(limit, action) ==
    /\ ncalls < limit
    /\ ncalls' = ncalls + 1
    /\ calls' = Append(calls, action)
    /\ answers' = <<>>
    /\ LET r == getNextState(heap, boardRef, action)
       IN  /\ heap' = r.heap
           /\ threw' = r.threw
           /\ IF r.threw
              THEN UNCHANGED <<snapshots, moves>>
              ELSE /\ snapshots' = Append(snapshots, r.ret)
                   /\ moves' = Append(moves, action)
    /\ UNCHANGED <<winningPatterns, genK, genPatterns, loaded>>
    /\ UNCHANGED uiVars

Play(action) == PlayUpTo(MaxCalls, action)

\* A fresh position replaces the caller's snapshots.
SetUp(moveList, state) ==
    /\ loaded' = moveList
    /\ calls' = <<>>
    /\ answers' = <<>>
    /\ heap' = <<state>>
    /\ snapshots' = <<1>>
    /\ moves' = <<>>
    /\ ncalls' = 0
    /\ threw' = FALSE
    /\ UNCHANGED <<winningPatterns, genK, genPatterns>>
    /\ UNCHANGED uiVars

NewGame == SetUp(<<>>, getInitialState)

Load(moveList) == SetUp(moveList, replayTable[moveList].state)

Next ==
    \/ \E action \in Actions : Play(action)
    \/ NewGame
    \/ \E moveList \in MoveLists : Load(moveList)

Spec == Init /\ [][Next]_vars

\* getValidMoves writing its flags into the top layer of the board it reads.
callGetValidMovesInPlace(h, state) ==
    [heap |-> [h EXCEPT ![state][0] =
                  [y \in Ys |-> [x \in Xs |-> IF h[state][0][y][x] = 0 THEN 1 ELSE 0]]],
     ret |-> getValidMoves(h[state])]

\* The read-only queries called on the object `state` of the heap h: the
\* heap after the call and the value returned.  flat, filter and map build
\* new arrays and none of the three assigns to its argument.
callGetValidMoves(h, state) == [heap |-> h, ret |-> getValidMoves(h[state])]

callGetCurrentPlayer(h, state) == [heap |-> h, ret |-> getCurrentPlayer(h[state])]

callGetValueAndTerminated(wp, h, state) ==
    [heap |-> h, ret |-> getValueAndTerminated(wp, h[state])]

\* getValidMoves, getCurrentPlayer and getValueAndTerminated called in turn.
queryRound(wp, h, state) ==
    LET a == callGetValidMoves(h, state)
        b == callGetCurrentPlayer(a.heap, state)
        c == callGetValueAndTerminated(wp, b.heap, state)
    IN  [heap |-> c.heap, ret |-> <<a.ret, b.ret, c.ret>>]

\* The caller asks the three queries about its current board, twice, and
\* keeps the content the board had before and both rounds of results; it
\* asks once about each board.
Query ==
    /\ Len(answers) = 0
    /\ LET first == queryRound(winningPatterns, heap, boardRef)
           second == queryRound(winningPatterns, first.heap, boardRef)
       IN  /\ heap' = second.heap
           /\ answers' = <<heap[boardRef], first.ret, second.ret>>
    /\ UNCHANGED <<winningPatterns, genK, genPatterns, snapshots, moves, ncalls, threw,
                   loaded, calls>>
    /\ UNCHANGED uiVars

\* The move lists of the caller that asks the queries: one that leaves
\* three in a line for both players, one that leaves a full column.
QueryLists == { <<0, 5, 1, 5, 2, 5>>, <<9, 9, 9, 9, 9, 2>> }

\* The caller that also asks the queries.
NextQuery ==
    \/ \E action \in Actions : Play(action)
    \/ \E moveList \in QueryLists : Load(moveList)
    \/ Query

SpecQuery == Init /\ [][NextQuery]_vars

\* The opening: the columns of one row, played from the initial state.
OpeningColumns == { 4, 5, 6, 7 }

MaxOpening == 7

NextOpening == \E action \in OpeningColumns : PlayUpTo(MaxOpening, action)

SpecOpening == Init /\ [][NextOpening]_vars

\* The same caller, setting its position up from the replay lists.
NextReplay ==
    \/ \E action \in Actions : Play(action)
    \/ \E moveList \in ReplayLists : Load(moveList)

SpecReplay == Init /\ [][NextReplay]_vars

\* The same caller, going on from positions at and next to the end of a game.
NextEnd ==
    \/ \E action \in Actions : Play(action)
    \/ \E moveList \in EndLists : Load(moveList)

SpecEnd == Init /\ [][NextEnd]_vars

\* The cells that hold a piece in the boards given to the export: cells of
\* one column, top and bottom, and cells of other columns, with nothing
\* said about what lies under a piece.
ExportCells == { <<0, 0, 0>>, <<3, 0, 0>>, <<1, 2, 3>>, <<2, 3, 1>>, <<3, 3, 3>> }

\* Every board with cells in {0, 1, -1} that is Empty outside ExportCells.
ExportBoards ==
    { [z \in Zs |-> [y \in Ys |-> [x \in Xs |->
          IF <<z, y, x>> \in ExportCells THEN f[<<z, y, x>>] ELSE 0]]] :
        f \in [ExportCells -> {0, 1, -1}] }

\* getStateHexCode of each of them.
exportTable == [b \in ExportBoards |-> getStateHexCode(b)]

InitExport ==
    /\ winningPatterns = generateWinningPatterns
    /\ genK = genIterations + 1
    /\ genPatterns = <<>>
    /\ \E b \in ExportBoards : heap = <<b>>
    /\ snapshots = <<1>>
    /\ moves = <<>>
    /\ ncalls = 0
    /\ threw = FALSE
    /\ loaded = <<>>
    /\ calls = <<>>
    /\ answers = <<>>
    /\ UIInit

\* The caller exports its board and keeps the string.
Export ==
    /\ Len(answers) = 0
    /\ answers' = <<getStateHexCode(boardState)>>
    /\ UNCHANGED <<winningPatterns, genK, genPatterns, heap, snapshots, moves, ncalls,
                   threw, loaded, calls>>
    /\ UNCHANGED uiVars

SpecExport == InitExport /\ [][Export]_vars

\* The moves the drawn game has left where a game under the rules starts.
MaxEndgame == 5

\* The positions a game under the rules starts from.
GameStarts == { SubSeq(DrawGame, 1, Len(DrawGame) - MaxEndgame) }

gameStartTable ==
    [ml \in GameStarts |-> getStateFromMoves(generateWinningPatterns, ml)]

InitGame ==
    /\ winningPatterns = generateWinningPatterns
    /\ genK = genIterations + 1
    /\ genPatterns = <<>>
    /\ \E ml \in GameStarts :
          /\ heap = <<gameStartTable[ml].state>>
          /\ loaded = ml
    /\ snapshots = <<1>>
    /\ moves = <<>>
    /\ ncalls = 0
    /\ threw = FALSE
    /\ calls = <<>>
    /\ answers = <<>>
    /\ UIInit

\* A caller that keeps to the rules: it looks at getValueAndTerminated and
\* getValidMoves and calls getNextState with a valid column of a state that
\* is not terminal.
PlayValid(action) ==
    /\ ~getValueAndTerminated(winningPatterns, boardState)[2]
    /\ At(getValidMoves(boardState), action) = 1
    /\ PlayUpTo(numCells, action)

NextGame == \E action \in 0 .. numActions - 1 : PlayValid(action)

\* A move is made: NextGame as far as the count of the calls tells, enabled
\* where NextGame is: no mask of the table lies in a player's bitboard, and
\* the top layer has an Empty cell.
MoveMade ==
    /\ \A k \in 1 .. Len(winningPatterns) :
          /\ ~maskContained(createBitboard(boardState, 1), winningPatterns[k])
          /\ ~maskContained(createBitboard(boardState, -1), winningPatterns[k])
    /\ \E y \in Ys : \E x \in Xs : boardState[0][y][x] = 0
    /\ ncalls < numCells
    /\ ncalls' = ncalls + 1

\* The game goes on while a move can be made.
SpecGame == InitGame /\ [][NextGame]_vars /\ WF_ncalls(MoveMade)

(***************************************************************************)
(* The page (main.js): its handlers, one step for each stretch between     *)
(* awaits, and the answers of the server.                                  *)
(***************************************************************************)
\* The columns clicked, and the columns the server's AI chooses from.
UIColumns == { 3, 5 }

\* The most moves, the player's and the AI's, added after a new game.
MaxUIMoves == 2

\* The move lists typed into the move input: a position with three in a line
\* for both players, and a list with an action out of range.
UILists == { <<0, 5, 1, 5, 2, 5>>, <<5, 20, 3>> }

\* The drawn game, whole and with its last move left to play, and the column
\* of that move.
DrawLists == { DrawGame, SubSeq(DrawGame, 1, Len(DrawGame) - 1) }

DrawColumns == { DrawGame[Len(DrawGame)] }

\* game.getStateFromMoves of each list.
uiReplayTable ==
    [ml \in UILists \cup DrawLists |-> getStateFromMoves(generateWinningPatterns, ml)]

\* What a handler leaves on the page besides the position.
page == [statusMessage |-> statusMessage,
         newGameBtnDisabled |-> newGameBtnDisabled,
         aiMoveBtnDisabled |-> aiMoveBtnDisabled]

\* logMessage(message) and setButtonsDisabled(state).
logMessage(p, message) == [p EXCEPT !.statusMessage = message]

setButtonsDisabled(p, state) ==
    [p EXCEPT !.newGameBtnDisabled = state, !.aiMoveBtnDisabled = state]

SetPage(p) ==
    /\ statusMessage' = p.statusMessage
    /\ newGameBtnDisabled' = p.newGameBtnDisabled
    /\ aiMoveBtnDisabled' = p.aiMoveBtnDisabled

\* main.js checkGameOver(terminalMessage, nonTerminalMessage) on the board
\* shown; "" stands for null.  The result is the value returned and the page.
uiCheckGameOver(wp, board, terminalMessage, nonTerminalMessage, p) ==
    LET vt == getValueAndTerminated(wp, board)
        value == vt[1]
        isTerminal == vt[2]
    IN  IF ~isTerminal
        THEN [ret |-> FALSE,
              page |-> IF nonTerminalMessage # ""
                       THEN setButtonsDisabled(logMessage(p, nonTerminalMessage), FALSE)
                       ELSE p]
        ELSE [ret |-> TRUE,
              page |->
                 [setButtonsDisabled(
                     logMessage(p,
                        IF value = 0 THEN "It's a draw!"
                        ELSE IF terminalMessage # "" THEN terminalMessage
                        ELSE IF getCurrentPlayer(board) = 1 THEN "Player 2 wins!"
                        ELSE "Player 1 wins!"),
                     TRUE)
                  EXCEPT !.newGameBtnDisabled = FALSE]]

\* A handler that logs a message and returns.
LogAndReturn(message) ==
    /\ statusMessage' = message
    /\ UNCHANGED <<uiBoardState, displayedBoard, moveHistory, currentMoveIndex, isRequestInProgress,
                   newGameBtnDisabled, aiMoveBtnDisabled, newGamePhase, aiPhase, aiSyncOk,
                   loadPhase, serverBoard, serverHistory, uiPlayed>>

\* handlePlayerMove(column), a click on a column (onColumnClick).
handlePlayerMove(column) ==
    /\ ~isRequestInProgress
    /\ IF currentMoveIndex # Len(moveHistory)
       THEN LogAndReturn("You must be at the most recent move to play.")
       ELSE IF getValueAndTerminated(winningPatterns, uiBoardState)[2]
       THEN LogAndReturn("Game is over. Please start a new game.")
       ELSE IF At(getValidMoves(uiBoardState), column) = 0
       THEN LogAndReturn("Invalid move: Column is full.")
       ELSE /\ uiPlayed < MaxUIMoves
            /\ uiPlayed' = uiPlayed + 1
            /\ uiBoardState' = applyMove(uiBoardState, column)
            /\ displayedBoard' = applyMove(uiBoardState, column)
            /\ moveHistory' = Append(moveHistory, column)
            /\ currentMoveIndex' = currentMoveIndex + 1
            /\ SetPage(uiCheckGameOver(
                          winningPatterns, applyMove(uiBoardState, column), "You win!",
                          "Your turn! Click a column or let the AI play.",
                          logMessage(setButtonsDisabled(page, TRUE),
                                     "Processing your move...")).page)
            /\ UNCHANGED <<isRequestInProgress, newGamePhase, aiPhase, aiSyncOk, loadPhase,
                           serverBoard, serverHistory>>
    /\ UNCHANGED engineVars
    /\ UNCHANGED movePhase

\* startNewGame up to its await: a click on the enabled New Game button.
startNewGame ==
    /\ ~newGameBtnDisabled
    /\ newGamePhase = "idle"
    /\ newGamePhase' = "waiting"
    /\ isRequestInProgress' = TRUE
    /\ SetPage(setButtonsDisabled(logMessage(page, "Starting new game..."), TRUE))
    /\ UNCHANGED <<uiBoardState, displayedBoard, moveHistory, currentMoveIndex, aiPhase, aiSyncOk,
                   loadPhase, serverBoard, serverHistory, uiPlayed>>
    /\ UNCHANGED engineVars
    /\ UNCHANGED movePhase

\* startNewGame from the answer to /api/new_game on: ok, or anything else
\* (a status that is not ok, a network error).
NewGameResponse(ok) ==
    /\ newGamePhase = "waiting"
    /\ newGamePhase' = "idle"
    /\ isRequestInProgress' = FALSE
    /\ IF ok
       THEN /\ uiBoardState' = getInitialState
            /\ displayedBoard' = getInitialState
            /\ moveHistory' = <<>>
            /\ currentMoveIndex' = 0
            /\ serverBoard' = getInitialState
            /\ serverHistory' = <<>>
            /\ uiPlayed' = 0
            /\ SetPage(setButtonsDisabled(
                          logMessage(page, "Your turn! Click a column or let the AI play."),
                          FALSE))
       ELSE /\ SetPage(setButtonsDisabled(
                          logMessage(page, "Error: Could not start new game."), FALSE))
            /\ UNCHANGED <<uiBoardState, displayedBoard, moveHistory, currentMoveIndex, serverBoard,
                           serverHistory, uiPlayed>>
    /\ UNCHANGED <<aiPhase, aiSyncOk, loadPhase>>
    /\ UNCHANGED engineVars
    /\ UNCHANGED movePhase

\* requestAIMove up to its first await: a click on the enabled AI Move button.
requestAIMove ==
    /\ ~aiMoveBtnDisabled
    /\ aiPhase = "idle"
    /\ ~isRequestInProgress
    /\ IF currentMoveIndex # Len(moveHistory)
       THEN LogAndReturn("You must be at the most recent move to play.")
       ELSE IF getValueAndTerminated(winningPatterns, uiBoardState)[2]
       THEN LogAndReturn("Game is over. Cannot make an AI move.")
       ELSE /\ isRequestInProgress' = TRUE
            /\ aiPhase' = "delay"
            /\ aiSyncOk' = FALSE
            /\ SetPage(logMessage(setButtonsDisabled(page, TRUE), "AI is thinking..."))
            /\ UNCHANGED <<uiBoardState, displayedBoard, moveHistory, currentMoveIndex, newGamePhase,
                           loadPhase, serverBoard, serverHistory, uiPlayed>>
    /\ UNCHANGED engineVars
    /\ UNCHANGED movePhase

\* requestAIMove from the end of its delay to the sending of /api/ai_move:
\* /api/set_state is sent with the board and history of that moment and
\* answered ok (the server takes them over), with a status that is not ok
\* ("failed": fetch resolves and the response is not looked at), or not at
\* all ("error": fetch rejects, and the catch and finally blocks run).
AISync(outcome) ==
    /\ aiPhase = "delay"
    /\ IF outcome = "error"
       THEN /\ aiPhase' = "idle"
            /\ aiSyncOk' = FALSE
            /\ isRequestInProgress' = FALSE
            /\ SetPage(setButtonsDisabled(logMessage(page, "Error"), FALSE))
            /\ UNCHANGED <<serverBoard, serverHistory>>
       ELSE /\ aiPhase' = "move"
            /\ aiSyncOk' = (outcome = "ok")
            /\ IF outcome = "ok"
               THEN serverBoard' = uiBoardState /\ serverHistory' = moveHistory
               ELSE UNCHANGED <<serverBoard, serverHistory>>
            /\ UNCHANGED <<isRequestInProgress, statusMessage, newGameBtnDisabled,
                           aiMoveBtnDisabled>>
    /\ UNCHANGED <<uiBoardState, displayedBoard, moveHistory, currentMoveIndex, newGamePhase, loadPhase,
                   uiPlayed>>
    /\ UNCHANGED engineVars
    /\ UNCHANGED movePhase

\* The server's answer to /api/ai_move: the position it holds with one more
\* move, valid where it stands.
AIMoveOk(column) ==
    /\ aiPhase = "move"
    /\ uiPlayed < MaxUIMoves
    /\ ~getValueAndTerminated(winningPatterns, serverBoard)[2]
    /\ At(getValidMoves(serverBoard), column) = 1
    /\ uiPlayed' = uiPlayed + 1
    /\ serverBoard' = applyMove(serverBoard, column)
    /\ serverHistory' = Append(serverHistory, column)
    /\ uiBoardState' = applyMove(serverBoard, column)
    /\ displayedBoard' = applyMove(serverBoard, column)
    /\ moveHistory' = Append(serverHistory, column)
    /\ currentMoveIndex' = Len(serverHistory) + 1
    /\ SetPage(uiCheckGameOver(winningPatterns, applyMove(serverBoard, column), "AI wins!",
                               "Your turn! Click a column or let the AI play.", page).page)
    /\ isRequestInProgress' = FALSE
    /\ aiPhase' = "idle"
    /\ UNCHANGED <<newGamePhase, aiSyncOk, loadPhase>>
    /\ UNCHANGED engineVars
    /\ UNCHANGED movePhase

\* /api/ai_move answered with a status that is not ok, or not at all.
AIMoveError ==
    /\ aiPhase = "move"
    /\ aiPhase' = "idle"
    /\ isRequestInProgress' = FALSE
    /\ SetPage(setButtonsDisabled(logMessage(page, "Error"), FALSE))
    /\ UNCHANGED <<uiBoardState, displayedBoard, moveHistory, currentMoveIndex, newGamePhase, aiSyncOk,
                   loadPhase, serverBoard, serverHistory, uiPlayed>>
    /\ UNCHANGED engineVars
    /\ UNCHANGED movePhase

\* navigateHistory that leaves the board shown as it is.
navigateHistoryIndexOnly(wp, history, index, board, direction) ==
    LET newIndex == index + direction
    IN  IF newIndex < 0 \/ newIndex > Len(history)
        THEN [currentMoveIndex |-> index, boardState |-> board]
        ELSE [currentMoveIndex |-> newIndex, boardState |-> board]

\* The index and the board that navigateHistory(direction) leaves, from the
\* index and the board it finds: both as they were when it returns early.
navigateHistoryTo(wp, history, index, board, direction) ==
    LET newIndex == index + direction
    IN  IF newIndex < 0 \/ newIndex > Len(history)
        THEN [currentMoveIndex |-> index, boardState |-> board]
        ELSE [currentMoveIndex |-> newIndex,
              boardState |-> getStateFromMoves(wp, SubSeq(history, 1, newIndex)).state]

\* navigateHistory(direction) where it does not return early.
navigateHistory(direction) ==
    LET to == navigateHistoryTo(winningPatterns, moveHistory, currentMoveIndex,
                                uiBoardState, direction)
        newIndex == currentMoveIndex + direction
        isViewingLive == newIndex = Len(moveHistory)
    IN  /\ ~(newIndex < 0 \/ newIndex > Len(moveHistory))
        /\ currentMoveIndex' = to.currentMoveIndex
        /\ uiBoardState' = to.boardState
        /\ displayedBoard' = to.boardState
        /\ IF isViewingLive
           THEN SetPage(setButtonsDisabled(
                           logMessage(page, "Viewing the most recent move. Your turn!"),
                           FALSE))
           ELSE SetPage(setButtonsDisabled(logMessage(page, "Viewing move"), TRUE))
        /\ UNCHANGED <<moveHistory, isRequestInProgress, newGamePhase, aiPhase, aiSyncOk,
                       loadPhase, serverBoard, serverHistory, uiPlayed>>
        /\ UNCHANGED engineVars
        /\ UNCHANGED movePhase

\* handleKeyDown for ArrowLeft (-1) and ArrowRight (1), the move input not
\* having the focus.
handleKeyDown(direction) ==
    /\ ~isRequestInProgress
    /\ navigateHistory(direction)

\* handleMoveInputChange on Enter with the list `movesTyped` in the input, up
\* to the sending of /api/set_state.  The server handles the request as it
\* is sent; `outcome` is its answer, which arrives later: "ok", or "failed"
\* for a status that is not ok and for none, which both end in the catch.
handleMoveInputChange(movesTyped, outcome) ==
    /\ loadPhase = "idle"
    /\ loadPhase' = outcome
    /\ isRequestInProgress' = TRUE
    /\ LET r == uiReplayTable[movesTyped]
       IN  /\ uiBoardState' = r.state
           /\ displayedBoard' = r.state
           /\ moveHistory' = r.appliedMoves
           /\ currentMoveIndex' = Len(r.appliedMoves)
           /\ SetPage(setButtonsDisabled(
                         logMessage(page,
                            IF Len(r.appliedMoves) < Len(movesTyped)
                            THEN "Warning: Invalid move found. Displaying state before invalid move."
                            ELSE "Loading position from moves"),
                         TRUE))
           /\ IF outcome = "ok"
              THEN serverBoard' = r.state /\ serverHistory' = r.appliedMoves
              ELSE UNCHANGED <<serverBoard, serverHistory>>
    /\ UNCHANGED <<newGamePhase, aiPhase, aiSyncOk, uiPlayed>>
    /\ UNCHANGED engineVars
    /\ UNCHANGED movePhase

\* The then, catch and finally of handleMoveInputChange.
LoadResponse ==
    /\ loadPhase # "idle"
    /\ loadPhase' = "idle"
    /\ isRequestInProgress' = FALSE
    /\ IF loadPhase = "ok"
       THEN SetPage(setButtonsDisabled(
                       uiCheckGameOver(winningPatterns, uiBoardState, "",
                                       "Viewing the new position. Your turn!", page).page,
                       FALSE))
       ELSE SetPage(setButtonsDisabled(logMessage(page, "Error"), FALSE))
    /\ UNCHANGED <<uiBoardState, displayedBoard, moveHistory, currentMoveIndex, newGamePhase, aiPhase,
                   aiSyncOk, serverBoard, serverHistory, uiPlayed>>
    /\ UNCHANGED engineVars
    /\ UNCHANGED movePhase

\* The page without the AI: new games, clicks on columns, the arrow keys and
\* move lists typed in.
NextUI ==
    \/ \E column \in UIColumns : handlePlayerMove(column)
    \/ startNewGame
    \/ \E ok \in BOOLEAN : NewGameResponse(ok)
    \/ \E direction \in {-1, 1} : handleKeyDown(direction)
    \/ \E movesTyped \in UILists : \E outcome \in {"ok", "failed"} :
          handleMoveInputChange(movesTyped, outcome)
    \/ LoadResponse

SpecUI == Init /\ [][NextUI]_vars

\* The page with the AI: new games, clicks on columns and AI moves.
NextAI ==
    \/ \E column \in UIColumns : handlePlayerMove(column)
    \/ startNewGame
    \/ \E ok \in BOOLEAN : NewGameResponse(ok)
    \/ requestAIMove
    \/ \E outcome \in {"ok", "failed", "error"} : AISync(outcome)
    \/ \E column \in UIColumns : AIMoveOk(column)
    \/ AIMoveError

SpecAI == Init /\ [][NextAI]_vars

\* The handlers that send requests, and the answers.
NextRequests ==
    \/ startNewGame
    \/ \E ok \in BOOLEAN : NewGameResponse(ok)
    \/ requestAIMove
    \/ \E outcome \in {"ok", "failed", "error"} : AISync(outcome)
    \/ \E column \in UIColumns : AIMoveOk(column)
    \/ AIMoveError
    \/ \E movesTyped \in UILists : \E outcome \in {"ok", "failed"} :
          handleMoveInputChange(movesTyped, outcome)
    \/ LoadResponse

\* An answer to /api/new_game is taken, the delay of requestAIMove ends and
\* /api/set_state is answered, /api/ai_move is answered, the /api/set_state
\* of a typed list is answered: the steps of NextRequests that change the
\* phase, named by that change.
NewGameAnswered == newGamePhase = "waiting" /\ newGamePhase' = "idle"

AISyncAnswered == aiPhase = "delay" /\ aiPhase' \in {"move", "idle"}

AIMoveAnswered == aiPhase = "move" /\ aiPhase' = "idle"

LoadAnswered == loadPhase # "idle" /\ loadPhase' = "idle"

\* Every request is answered or fails in the end, and every timer fires.
SpecRequests ==
    /\ Init
    /\ [][NextRequests]_vars
    /\ WF_newGamePhase(NewGameAnswered)
    /\ WF_aiPhase(AISyncAnswered)
    /\ WF_aiPhase(AIMoveAnswered)
    /\ WF_loadPhase(LoadAnswered)

\* The page with the AI, the arrow keys and a typed list.
PageLists == { <<5, 20, 3>> }

NextPage ==
    \/ requestAIMove
    \/ \E outcome \in {"ok", "failed", "error"} : AISync(outcome)
    \/ \E column \in UIColumns : AIMoveOk(column)
    \/ AIMoveError
    \/ \E direction \in {-1, 1} : handleKeyDown(direction)
    \/ \E movesTyped \in PageLists : \E outcome \in {"ok", "failed"} :
          handleMoveInputChange(movesTyped, outcome)
    \/ LoadResponse

SpecPage == Init /\ [][NextPage]_vars

\* The end of the drawn game on the page: the position is typed in, and the
\* player or the AI fills the last cell.
NextDraw ==
    \/ \E column \in DrawColumns : handlePlayerMove(column)
    \/ startNewGame
    \/ \E ok \in BOOLEAN : NewGameResponse(ok)
    \/ requestAIMove
    \/ \E outcome \in {"ok", "failed", "error"} : AISync(outcome)
    \/ \E column \in DrawColumns : AIMoveOk(column)
    \/ AIMoveError
    \/ \E movesTyped \in DrawLists : \E outcome \in {"ok", "failed"} :
          handleMoveInputChange(movesTyped, outcome)
    \/ LoadResponse

SpecDraw == Init /\ [][NextDraw]_vars

\* static/js/main.js, the page that keeps no board and asks the server for
\* every move.  Its handlers change the variables listed here and no other.
ServerPageUnchanged ==
    /\ UNCHANGED <<uiBoardState, newGamePhase, aiPhase, aiSyncOk, loadPhase, uiPlayed>>
    /\ UNCHANGED engineVars

MaxServerMoves == 8

MoveIdle == [at |-> "idle", column |-> 0]

\* handlePlayerMove(column) of static/js/main.js up to its first await, the
\* fetch of /api/game_status.
handlePlayerMoveByServer(column) ==
    /\ movePhase.at = "idle"
    /\ ~isRequestInProgress
    /\ IF currentMoveIndex # Len(moveHistory)
       THEN /\ statusMessage' = "You must be at the most recent move to play."
            /\ UNCHANGED <<isRequestInProgress, movePhase>>
       ELSE /\ Len(serverHistory) < MaxServerMoves
            /\ isRequestInProgress' = TRUE
            /\ movePhase' = [at |-> "status", column |-> column]
            /\ UNCHANGED statusMessage
    /\ UNCHANGED <<displayedBoard, moveHistory, currentMoveIndex, newGameBtnDisabled,
                   aiMoveBtnDisabled, serverBoard, serverHistory>>
    /\ ServerPageUnchanged

\* The answer to /api/game_status in handlePlayerMove: "ok" with the status of
\* the server's game, or "failed" when the fetch is rejected or the body is
\* not JSON; the two awaits stand before the try block, so the exception
\* leaves the handler.
GameStatusAnswer(outcome) ==
    /\ movePhase.at = "status"
    /\ IF outcome = "failed"
       THEN /\ movePhase' = MoveIdle
            /\ UNCHANGED <<isRequestInProgress, statusMessage, newGameBtnDisabled,
                           aiMoveBtnDisabled>>
       ELSE IF getValueAndTerminated(winningPatterns, serverBoard)[2]
       THEN /\ movePhase' = MoveIdle
            /\ isRequestInProgress' = FALSE
            /\ statusMessage' = "Game is over. Please start a new game."
            /\ UNCHANGED <<newGameBtnDisabled, aiMoveBtnDisabled>>
       ELSE /\ movePhase' = [movePhase EXCEPT !.at = "move"]
            /\ SetPage(logMessage(setButtonsDisabled(page, TRUE), "Processing your move..."))
            /\ UNCHANGED isRequestInProgress
    /\ UNCHANGED <<displayedBoard, moveHistory, currentMoveIndex, serverBoard, serverHistory>>
    /\ ServerPageUnchanged

\* The position of the server's game is drawn and its history installed; the
\* message and the buttons follow its status.
ShowServerGame(board, history, winMessage) ==
    /\ displayedBoard' = board
    /\ moveHistory' = history
    /\ currentMoveIndex' = Len(history)
    /\ LET vt == getValueAndTerminated(winningPatterns, board)
       IN  IF vt[2]
           THEN SetPage([logMessage(page, IF vt[1] = 0 THEN "It's a draw!" ELSE winMessage)
                            EXCEPT !.aiMoveBtnDisabled = TRUE,
                                   !.newGameBtnDisabled = FALSE])
           ELSE SetPage(setButtonsDisabled(
                           logMessage(page, "Your turn! Click a column or let the AI play."),
                           FALSE))

\* The answer to /api/player_move in handlePlayerMove: the try, catch and
\* finally blocks.  The server plays the column when its game goes on and the
\* column has room, and answers with an error status otherwise.
PlayerMoveAnswer(outcome) ==
    /\ movePhase.at = "move"
    /\ movePhase' = MoveIdle
    /\ isRequestInProgress' = FALSE
    /\ IF /\ outcome = "ok"
          /\ ~getValueAndTerminated(winningPatterns, serverBoard)[2]
          /\ At(getValidMoves(serverBoard), movePhase.column) = 1
       THEN /\ serverBoard' = applyMove(serverBoard, movePhase.column)
            /\ serverHistory' = Append(serverHistory, movePhase.column)
            /\ ShowServerGame(applyMove(serverBoard, movePhase.column),
                              Append(serverHistory, movePhase.column), "You win!")
       ELSE /\ SetPage(setButtonsDisabled(logMessage(page, "Error"), FALSE))
            /\ UNCHANGED <<displayedBoard, moveHistory, currentMoveIndex, serverBoard,
                           serverHistory>>
    /\ ServerPageUnchanged

\* requestAIMove of static/js/main.js up to its awaits, the delay and the
\* fetch of /api/ai_move.
requestAIMoveByServer ==
    /\ movePhase.at = "idle"
    /\ ~isRequestInProgress
    /\ ~aiMoveBtnDisabled
    /\ IF currentMoveIndex # Len(moveHistory)
       THEN /\ statusMessage' = "You must be at the most recent move to play."
            /\ UNCHANGED <<isRequestInProgress, movePhase, newGameBtnDisabled,
                           aiMoveBtnDisabled>>
       ELSE /\ Len(serverHistory) < MaxServerMoves
            /\ isRequestInProgress' = TRUE
            /\ movePhase' = [at |-> "ai", column |-> 0]
            /\ SetPage(logMessage(setButtonsDisabled(page, TRUE), "AI is thinking..."))
    /\ UNCHANGED <<displayedBoard, moveHistory, currentMoveIndex, serverBoard, serverHistory>>
    /\ ServerPageUnchanged

\* The answer to /api/ai_move in requestAIMove of static/js/main.js: the
\* server has played `column`, or answers with an error status or not at all.
AIMoveAnswer(column, outcome) ==
    /\ movePhase.at = "ai"
    /\ movePhase' = MoveIdle
    /\ isRequestInProgress' = FALSE
    /\ IF /\ outcome = "ok"
          /\ ~getValueAndTerminated(winningPatterns, serverBoard)[2]
          /\ At(getValidMoves(serverBoard), column) = 1
       THEN /\ serverBoard' = applyMove(serverBoard, column)
            /\ serverHistory' = Append(serverHistory, column)
            /\ ShowServerGame(applyMove(serverBoard, column), Append(serverHistory, column),
                              "AI wins!")
       ELSE /\ SetPage(setButtonsDisabled(logMessage(page, "Error"), FALSE))
            /\ UNCHANGED <<displayedBoard, moveHistory, currentMoveIndex, serverBoard,
                           serverHistory>>
    /\ ServerPageUnchanged

NextServerPage ==
    \/ \E column \in UIColumns : handlePlayerMoveByServer(column)
    \/ \E outcome \in {"ok", "failed"} : GameStatusAnswer(outcome)
    \/ \E outcome \in {"ok", "failed"} : PlayerMoveAnswer(outcome)
    \/ requestAIMoveByServer
    \/ \E column \in UIColumns : \E outcome \in {"ok", "failed"} : AIMoveAnswer(column, outcome)

\* An await of a handler of static/js/main.js settles.
MoveAnswered == movePhase.at # "idle" /\ movePhase' # movePhase

\* Every request of the page is answered or fails in the end.
SpecServerPage ==
    /\ Init
    /\ [][NextServerPage]_vars
    /\ WF_movePhase(MoveAnswered)

\* The input handler of the piece-size and of the piece-opacity slider: the
\* setting changes, /api/game_status is asked for the board, and the board of
\* the answer is drawn.  `outcome` is "ok" for an answer that holds the board
\* of the server's game, "failed" for one without a board and for none.
SliderInput(outcome) ==
    /\ displayedBoard' = IF outcome = "ok" THEN serverBoard ELSE displayedBoard
    /\ UNCHANGED <<uiBoardState, moveHistory, currentMoveIndex, isRequestInProgress,
                   newGameBtnDisabled, aiMoveBtnDisabled, statusMessage, newGamePhase,
                   aiPhase, aiSyncOk, loadPhase, serverBoard, serverHistory, uiPlayed>>
    /\ UNCHANGED engineVars
    /\ UNCHANGED movePhase

\* The page without the AI, with the sliders of the settings.
NextRender ==
    \/ NextUI
    \/ \E outcome \in {"ok", "failed"} : SliderInput(outcome)

SpecRender == Init /\ [][NextRender]_vars

(***************************************************************************)
(* Properties.  The lattice, its lines and the cell counts below are       *)
(* stated from the geometry, not through the engine's operations.          *)
(***************************************************************************)
cell(state, c) == state[c[1]][c[2]][c[3]]

\* Bit index of a cell (depth, row, col).
bitIndex(c) == c[1] * 16 + c[2] * 4 + c[3]

\* The four cells start + i*d, i = 0..3.
lineCells(start, d) ==
    { <<start[1] + i * d[1], start[2] + i * d[2], start[3] + i * d[3]>> : i \in 0 .. 3 }

\* Every line of four cells inside the lattice, for any non-zero direction.
GeometricLines ==
    { lineCells(sd[1], sd[2]) :
        sd \in { sd \in Cells \X ((-1 .. 1) \X (-1 .. 1) \X (-1 .. 1)) :
                    /\ sd[2] # <<0, 0, 0>>
                    /\ lineCells(sd[1], sd[2]) \subseteq Cells } }

GeometricMasks == { { bitIndex(c) : c \in L } : L \in GeometricLines }

\* Some line of four is entirely in one player's hands.
CompletedLine(state) ==
    \E L \in GeometricLines : \E p \in {1, -1} : \A c \in L : cell(state, c) = p

PieceCount(state, p) == Cardinality({ c \in Cells : cell(state, c) = p })

BoardFull(state) == \A c \in Cells : cell(state, c) # 0

ColumnHasEmpty(state, row, col) == \E d \in Zs : state[d][row][col] = 0

\* Empty cells of the column are exactly the depths 0 .. k-1 for some k.
GravityColumn(state, row, col) ==
    \E k \in 0 .. depth : \A d \in Zs : (state[d][row][col] = 0) <=> (d < k)

TableBuilt == genK = genIterations + 1

TableMasks == { winningPatterns[i] : i \in 1 .. Len(winningPatterns) }

\* C1: the table built by _generateWinningPatterns holds exactly 76 masks,
\* pairwise distinct, each with exactly 4 bits set, every bit the index
\* depth*16 + row*4 + col of a cell.
C1_Table76MasksOf4Bits ==
    TableBuilt =>
        /\ Len(winningPatterns) = 76
        /\ \A i, j \in 1 .. Len(winningPatterns) :
              i # j => winningPatterns[i] # winningPatterns[j]
        /\ \A i \in 1 .. Len(winningPatterns) :
              /\ Cardinality(winningPatterns[i]) = 4
              /\ winningPatterns[i] \subseteq { bitIndex(c) : c \in Cells }

C1_Witness == TableBuilt /\ Len(winningPatterns) > 0 /\ genPatterns = <<>>

\* C2: a set of 4 cells is in the table iff it is a line start + i*d
\* (i = 0..3) lying inside the lattice for some non-zero direction d in
\* {-1,0,1}^3: none is missing and nothing else is present.
C2_TableIsExactlyTheLines == TableBuilt => TableMasks = GeometricMasks

\* The table is built and holds a line that runs against the row axis and a
\* space diagonal.
C2_Witness ==
    /\ TableBuilt
    /\ {3, 6, 9, 12} \in TableMasks
    /\ {0, 21, 42, 63} \in TableMasks

\* C3: in every state reached by getNextState calls with actions in 0..15
\* (calls on full columns included), the Empty cells of each column are
\* exactly the depths 0..k-1 for some k, and the depths k..3 are occupied.
C3_Gravity ==
    \A i \in 1 .. Len(snapshots) : \A row \in Ys : \A col \in Xs :
        GravityColumn(heap[snapshots[i]], row, col)

\* Two calls were made, and some column is partly filled.
C3_Witness ==
    /\ Len(moves) = MaxCalls
    /\ \E row \in Ys : \E col \in Xs :
          boardState[depth - 1][row][col] # 0 /\ boardState[0][row][col] = 0

\* C4: for a full board in which neither player holds a winning line,
\* getValueAndTerminated returns (0, true).
C4_FullBoardNoLineIsDraw ==
    (BoardFull(boardState) /\ ~CompletedLine(boardState))
        => getValueAndTerminated(winningPatterns, boardState) = <<0, TRUE>>

\* C5: whenever a winning line is contained in either player's bitboard,
\* getValueAndTerminated returns (-1, true).
C5_CompletedLineIsLoss ==
    CompletedLine(boardState)
        => getValueAndTerminated(winningPatterns, boardState) = <<-1, TRUE>>

\* The last call, a valid move of PlayerOne to column 3, completed row 0 of
\* the bottom layer.
C5_Witness ==
    /\ Len(moves) >= 1
    /\ moves[Len(moves)] = 3
    /\ ~CompletedLine(heap[snapshots[Len(snapshots) - 1]])
    /\ \A col \in Xs : boardState[depth - 1][0][col] = 1

\* C6: isTerminal is true iff the state holds a completed line or the board
\* is full, and a state with no completed line and a playable column yields
\* (0, false).
C6_TerminalIffLineOrFull ==
    LET vt == getValueAndTerminated(winningPatterns, boardState)
    IN  /\ vt[2] = (CompletedLine(boardState) \/ BoardFull(boardState))
        /\ (/\ ~CompletedLine(boardState)
            /\ \E row \in Ys : \E col \in Xs : ColumnHasEmpty(boardState, row, col))
              => vt = <<0, FALSE>>

\* A position in play: pieces on the board, a column already full, no line,
\* and the last call placed a piece.
C6_Witness ==
    /\ Len(moves) >= 1
    /\ boardState # heap[snapshots[Len(snapshots) - 1]]
    /\ ~CompletedLine(boardState)
    /\ ~BoardFull(boardState)
    /\ \E row \in Ys : \E col \in Xs : ~ColumnHasEmpty(boardState, row, col)

\* C7: for an action a in 0..15 whose column is not full, getNextState
\* changes exactly one cell: the Empty cell of largest depth in column
\* (a div 4, a mod 4), which receives getCurrentPlayer(state), a player; the
\* result is the input board with that one cell replaced.  Stated of every
\* call the caller has made.
C7_OneCellLowestEmpty ==
    \A i \in 1 .. Len(moves) :
        LET a == moves[i]
            row == a \div 4
            col == a % 4
            s == heap[snapshots[i]]
            next == heap[snapshots[i + 1]]
        IN  ColumnHasEmpty(s, row, col) =>
                LET low == CHOOSE d \in Zs :
                              /\ s[d][row][col] = 0
                              /\ \A e \in Zs : e > d => s[e][row][col] # 0
                    mover == getCurrentPlayer(s)
                IN  /\ mover \in {1, -1}
                    /\ next = [s EXCEPT ![low][row][col] = mover]
                    /\ Cardinality({c \in Cells : cell(next, c) # cell(s, c)}) = 1

\* The last call dropped a piece on top of another one, in a column whose
\* row and col differ.
C7_Witness ==
    /\ Len(moves) >= 1
    /\ LET a == moves[Len(moves)]
           prev == heap[snapshots[Len(snapshots) - 1]]
       IN  /\ a \div 4 # a % 4
           /\ prev[depth - 1][a \div 4][a % 4] # 0
           /\ prev # boardState

\* C8: a getNextState call leaves every snapshot the caller holds, its
\* argument included, cell for cell as it was, and a state it returns is a
\* new object, none of those the caller already holds.
C8_InputNeverMutated ==
    [][ncalls' = ncalls + 1 =>
          /\ \A i \in 1 .. Len(snapshots) :
                heap'[snapshots[i]] = heap[snapshots[i]]
          /\ Len(snapshots') > Len(snapshots) =>
                \A i \in 1 .. Len(snapshots) :
                    snapshots'[Len(snapshots')] # snapshots[i]]_vars

\* Two moves were applied one after the other and the caller holds three
\* different boards.
C8_Witness ==
    /\ Len(snapshots) = 3
    /\ heap[snapshots[1]] # heap[snapshots[2]]
    /\ heap[snapshots[2]] # heap[snapshots[3]]
    /\ heap[snapshots[1]] # heap[snapshots[3]]

\* C9: count(PlayerOne) - count(PlayerTwo) is 0 or 1; getCurrentPlayer is
\* PlayerOne exactly when the counts are equal; the mover alternates on
\* every valid move, PlayerOne moving first.
C9_CountsAndAlternation ==
    /\ \A i \in 1 .. Len(snapshots) :
          LET s == heap[snapshots[i]]
              diff == PieceCount(s, 1) - PieceCount(s, -1)
          IN  /\ diff \in {0, 1}
              /\ getCurrentPlayer(s) = (IF diff = 0 THEN 1 ELSE -1)
              /\ (\A c \in Cells : cell(s, c) = 0) => getCurrentPlayer(s) = 1
    /\ \A i \in 1 .. Len(moves) :
          LET s == heap[snapshots[i]]
              t == heap[snapshots[i + 1]]
          IN  ColumnHasEmpty(s, moves[i] \div 4, moves[i] % 4) =>
                  getCurrentPlayer(t) = -getCurrentPlayer(s)

\* PlayerTwo made the last of two valid moves.
C9_Witness ==
    /\ Len(moves) = 2
    /\ heap[snapshots[1]] # heap[snapshots[2]]
    /\ heap[snapshots[2]] # boardState
    /\ getCurrentPlayer(heap[snapshots[2]]) = -1
    /\ PieceCount(boardState, 1) = PieceCount(boardState, -1)

\* C10: getValidMoves(state)[a] = 1 iff the depth-0 cell of column
\* (a div 4, a mod 4) is Empty iff that column has an Empty cell, the column
\* being the one _actionToCoords(a) gives.
C10_ValidIffTopEmpty ==
    LET valid == getValidMoves(boardState)
    IN  /\ Len(valid) = 16
        /\ \A a \in 0 .. 15 :
              LET coords == actionToCoords(a)
              IN  /\ coords.ok
                  /\ coords.row = a \div 4 /\ coords.col = a % 4
                  /\ At(valid, a) \in {0, 1}
                  /\ (At(valid, a) = 1) <=> (boardState[0][coords.row][coords.col] = 0)
                  /\ (boardState[0][coords.row][coords.col] = 0)
                        <=> ColumnHasEmpty(boardState, coords.row, coords.col)

\* After a call, one column is full while another, off the diagonal, holds
\* pieces and is still playable.
C10_Witness ==
    /\ ncalls >= 1
    /\ \E a \in 0 .. 15 : At(getValidMoves(boardState), a) = 0
    /\ \E a \in 0 .. 15 :
          /\ a \div 4 # a % 4
          /\ At(getValidMoves(boardState), a) = 1
          /\ boardState[depth - 1][a \div 4][a % 4] # 0

(***************************************************************************)
(* Replay (getStateFromMoves) against play.                                *)
(***************************************************************************)
InRange(action) == action \in 0 .. numActions - 1

\* Draw or win, read off the cells.
Terminal(state) == CompletedLine(state) \/ BoardFull(state)

ColumnOpen(state, action) == ColumnHasEmpty(state, action \div cols, action % cols)

\* The board call i was made on, no earlier call having raised.
BoardBefore(i) == heap[snapshots[i]]

\* Call i named a column in range that was not full.
ValidCall(i) == InRange(calls[i]) /\ ColumnOpen(BoardBefore(i), calls[i])

\* The list the position was set up from was applied to its end.
LoadedInFull == replayTable[loaded].appliedMoves = loaded

\* Everything played since the initial state, as one move list.
PlayedList == loaded \o calls

\* C11: for every sequence of actions applied by successive valid
\* getNextState calls from the initial state, getStateFromMoves on that
\* sequence returns exactly the final state of the play.
C11_RoundTrip ==
    (LoadedInFull /\ \A i \in 1 .. Len(calls) : ValidCall(i))
        => getStateFromMoves(winningPatterns, PlayedList).state = boardState

\* C11, amended: the same, for play in which every call is made on a
\* non-terminal state; the replay then applies the whole sequence.
C11_RoundTripOfLegalPlay ==
    (LoadedInFull
     /\ \A i \in 1 .. Len(calls) : ValidCall(i) /\ ~Terminal(BoardBefore(i)))
        => LET r == getStateFromMoves(winningPatterns, PlayedList)
           IN  r.state = boardState /\ r.appliedMoves = PlayedList

\* Two valid calls were made on non-terminal states after six replayed moves,
\* the second completing a line.
C11_Witness ==
    /\ loaded = <<0, 5, 1, 5, 2, 5>>
    /\ Len(calls) = MaxCalls
    /\ \A i \in 1 .. Len(calls) : ValidCall(i) /\ ~Terminal(BoardBefore(i))
    /\ CompletedLine(boardState)

\* C12: getStateFromMoves never raises; at the first action that is out of
\* range or whose column is full in the state built so far it stops and
\* returns that state with the moves applied before it, and applies no later
\* move ([5, 20, 3] gives appliedMoves = [5] and one piece).
C12_StopsAtFirstInvalidMove ==
    LET r == getStateFromMoves(winningPatterns, PlayedList)
    IN  /\ ~r.threw
        /\ \A j \in 1 .. Len(calls) :
              (/\ LoadedInFull
               /\ \A i \in 1 .. j - 1 : ValidCall(i) /\ ~Terminal(BoardBefore(i))
               /\ ~ValidCall(j))
                  => /\ r.state = BoardBefore(j)
                     /\ r.appliedMoves = loaded \o SubSeq(calls, 1, j - 1)
        /\ loaded = <<5, 20, 3>>
              => r.appliedMoves = <<5>> /\ getNumPieces(r.state) = 1
        /\ loaded = <<9, 9, 9, 9, 9, 2>>
              => r.appliedMoves = <<9, 9, 9, 9>> /\ getNumPieces(r.state) = 4

\* The list 5, 20, 3 was replayed and two valid calls were made after it;
\* the replay of all five actions stops at 20.
C12_Witness ==
    /\ loaded = <<5, 20, 3>>
    /\ Len(calls) = MaxCalls
    /\ \A i \in 1 .. Len(calls) : ValidCall(i)
    /\ getNumPieces(boardState) = 1 + MaxCalls

\* For each replay list, the lengths of its prefixes whose replay gives a
\* terminal state.
TerminalPrefixes ==
    [ml \in ReplayLists |->
        { k \in 0 .. Len(ml) :
            Terminal(getStateFromMoves(generateWinningPatterns, SubSeq(ml, 1, k)).state) }]

\* C13: getStateFromMoves stops as soon as the state it has built is
\* terminal: the move that produced the terminal state is the last of
\* appliedMoves, every proper prefix of appliedMoves yields a non-terminal
\* state, and the remaining input moves are ignored.
C13_StopsAtTerminalState ==
    LET r == getStateFromMoves(winningPatterns, PlayedList)
        n == Len(r.appliedMoves) - Len(loaded)
    IN  /\ \A k \in TerminalPrefixes[loaded] : k >= Len(replayTable[loaded].appliedMoves)
        /\ LoadedInFull =>
              /\ n \in 0 .. Len(calls)
              /\ r.appliedMoves = loaded \o SubSeq(calls, 1, n)
              /\ \A i \in 1 .. n : ~Terminal(BoardBefore(i))
              /\ r.state = BoardBefore(n + 1)
        /\ loaded = <<0, 4, 1, 5, 2, 6, 3, 7>> =>
              /\ r.appliedMoves = <<0, 4, 1, 5, 2, 6, 3>>
              /\ CompletedLine(r.state)

\* A valid call completed a line and a valid call was made after it: the
\* replay of the play has a move to ignore.
C13_Witness ==
    /\ LoadedInFull
    /\ \E j \in 1 .. Len(calls) - 1 :
          /\ \A i \in 1 .. j + 1 : ValidCall(i)
          /\ ~Terminal(BoardBefore(j))
          /\ CompletedLine(BoardBefore(j + 1))

(***************************************************************************)
(* getLandingPosition, full columns and actions out of range.              *)
(***************************************************************************)
\* The cells in which two boards differ.
ChangedCells(s, t) == { c \in Cells : cell(s, c) # cell(t, c) }

\* C14: for a state and an action in 0..15 whose column is not full,
\* getLandingPosition returns [d, row, col], the one cell in which
\* getNextState(state, a) differs from state; on an empty column d = 3.
C14_LandingIsTheChangedCell ==
    /\ \A i \in 1 .. Len(moves) :
          LET s == heap[snapshots[i]]
              lp == getLandingPosition(s, moves[i])
          IN  ColumnOpen(s, moves[i]) =>
                 /\ ~lp.threw
                 /\ Len(lp.ret) = 3
                 /\ lp.ret[2] = moves[i] \div cols
                 /\ lp.ret[3] = moves[i] % cols
                 /\ ChangedCells(s, heap[snapshots[i + 1]]) = {lp.ret}
    /\ \A a \in 0 .. numActions - 1 :
          boardState[depth - 1][a \div cols][a % cols] = 0
              => getLandingPosition(boardState, a).ret = <<depth - 1, a \div cols, a % cols>>

\* The last call dropped a piece onto an occupied cell of a column.
C14_Witness ==
    /\ Len(moves) = MaxCalls
    /\ LET s == heap[snapshots[Len(moves)]]
           a == moves[Len(moves)]
       IN  /\ ColumnOpen(s, a)
           /\ s[depth - 1][a \div cols][a % cols] # 0
           /\ getLandingPosition(s, a).ret[1] < depth - 1

\* C15: getLandingPosition returns null, and never raises, when the action
\* is outside 0..15 or its column is full; it returns a position exactly
\* when the action is in 0..15 and getValidMoves(state)[a] = 1.
C15_LandingNullIffInvalid ==
    \A a \in Actions :
        LET lp == getLandingPosition(boardState, a)
        IN  /\ ~lp.threw
            /\ (lp.ret # <<>>) <=> (InRange(a) /\ At(getValidMoves(boardState), a) = 1)
            /\ (lp.ret = <<>>) <=> (~InRange(a) \/ ~ColumnOpen(boardState, a))

\* After a call, the board has a full column and a column that is not full.
C15_Witness ==
    /\ calls # <<>>
    /\ \E a, b \in 0 .. numActions - 1 :
          /\ ~ColumnOpen(boardState, a)
          /\ getLandingPosition(boardState, a).ret = <<>>
          /\ ColumnOpen(boardState, b)
          /\ getLandingPosition(boardState, b).ret # <<>>

\* C16: getNextState with an action in 0..15 whose column is full returns a
\* state equal cell for cell to its input: no piece is placed and the turn
\* does not change.
C16_FullColumnIsNoOp ==
    \A i \in 1 .. Len(moves) :
        LET s == heap[snapshots[i]]
            t == heap[snapshots[i + 1]]
        IN  ~ColumnOpen(s, moves[i]) =>
               /\ t = s
               /\ getNumPieces(t) = getNumPieces(s)
               /\ getCurrentPlayer(t) = getCurrentPlayer(s)

\* The last call was made on a full column of a board that has Empty cells,
\* and returned a new object.
C16_Witness ==
    /\ moves # <<>>
    /\ LET i == Len(moves)
       IN  /\ ~ColumnOpen(heap[snapshots[i]], moves[i])
           /\ ~BoardFull(heap[snapshots[i]])
           /\ snapshots[i + 1] # snapshots[i]

\* C17: getNextState with an action outside 0..15 raises an Error (the range
\* test of _actionToCoords) instead of returning a state, and leaves its
\* input and every earlier snapshot as they were; an action in 0..15 raises
\* nothing.
C17_OutOfRangeRaises ==
    [][ncalls' = ncalls + 1 =>
          IF InRange(calls'[Len(calls')])
          THEN ~threw' /\ Len(snapshots') = Len(snapshots) + 1
          ELSE /\ threw'
               /\ snapshots' = snapshots
               /\ moves' = moves
               /\ \A i \in 1 .. Len(snapshots) :
                     heap'[snapshots[i]] = heap[snapshots[i]]]_vars

\* The last call, made after a valid one, had an action out of range and
\* raised.
C17_Witness ==
    /\ threw
    /\ Len(calls) = MaxCalls
    /\ ~InRange(calls[Len(calls)])
    /\ Len(moves) = MaxCalls - 1
    /\ getNumPieces(boardState) = Len(loaded) + MaxCalls - 1

\* Every move since the initial state was a valid one made on a non-terminal
\* state (a replayed list that was applied to its end is such a play).
LegalPlay ==
    /\ LoadedInFull
    /\ \A i \in 1 .. Len(calls) : ValidCall(i) /\ ~Terminal(BoardBefore(i))

\* Some mask of the table is contained in the bitboard.
HoldsAMask(bitboard) ==
    \E k \in 1 .. Len(winningPatterns) : maskContained(bitboard, winningPatterns[k])

\* C18: in a state reached by valid moves made on non-terminal states only,
\* no winning mask is contained in the bitboard of the side to move (the
\* second test of checkGameOver never fires), and checkWin(state) is true
\* exactly when the state contains a completed line.
C18_OnlyLastMoverHoldsALine ==
    LegalPlay =>
        /\ ~HoldsAMask(createBitboard(boardState, getCurrentPlayer(boardState)))
        /\ checkWin(winningPatterns, boardState) <=> CompletedLine(boardState)

\* A play of valid moves on non-terminal states whose last call completed a
\* line.
C18_Witness ==
    /\ LegalPlay
    /\ Len(calls) = MaxCalls
    /\ CompletedLine(boardState)
    /\ checkWin(winningPatterns, boardState)

(***************************************************************************)
(* The hexadecimal export.                                                 *)
(***************************************************************************)
\* The value of a hexadecimal digit.
HexValue(ch) == CHOOSE v \in 0 .. 15 : HexDigits[v + 1] = ch

\* The bits set in the number a string of hexadecimal digits denotes.
HexBits(hex) ==
    { b \in 0 .. 4 * Len(hex) - 1 :
        (HexValue(hex[Len(hex) - (b \div 4)]) \div (2 ^ (b % 4))) % 2 = 1 }

\* The bit the specification gives a cell in the exported words.
exportBit(c) == (3 - c[1]) * 16 + c[2] * 4 + c[3]

\* The number of pieces in the column of an action.
ColumnCount(state, a) ==
    Cardinality({ d \in Zs : state[d][a \div cols][a % cols] # 0 })

\* C19: getStateHexCode gives PlayerOne's word, one space, PlayerTwo's
\* word; in the word of player P bit (3 - depth)*16 + row*4 + col is set
\* exactly for the cells occupied by P, so the bottom cell of column a is
\* bit a; in a reachable state bit k*16 + a is set in one of the two words
\* iff column a holds more than k pieces.
C19_HexCodeBits ==
    LET code == getStateHexCode(boardState)
        one == HexBits(SubSeq(code, 1, 16))
        two == HexBits(SubSeq(code, 18, Len(code)))
    IN  /\ Len(code) = 33
        /\ code[17] = " "
        /\ one = { exportBit(c) : c \in { c \in Cells : cell(boardState, c) = 1 } }
        /\ two = { exportBit(c) : c \in { c \in Cells : cell(boardState, c) = -1 } }
        /\ \A a \in 0 .. numActions - 1 :
              /\ (a \in one) <=> (boardState[3][a \div cols][a % cols] = 1)
              /\ (a \in two) <=> (boardState[3][a \div cols][a % cols] = -1)
              /\ \A k \in 0 .. depth - 1 :
                    (k * 16 + a \in one \cup two) <=> (ColumnCount(boardState, a) > k)

\* After the calls, a column holds two or three pieces, one of each player
\* among them.
C19_Witness ==
    /\ Len(moves) = MaxCalls
    /\ \E a \in 0 .. numActions - 1 :
          /\ ColumnCount(boardState, a) \in {2, 3}
          /\ \E d, e \in Zs :
                /\ boardState[d][a \div cols][a % cols] = 1
                /\ boardState[e][a \div cols][a % cols] = -1

\* C20: each exported bitboard is a non-negative integer below 2^64, so each
\* hexadecimal word has exactly 16 digits: padded with zeros, never longer.
C20_WordsHave16Digits ==
    \A player \in {1, -1} :
        LET bitboard == createBitboardFlipped(boardState, player)
        IN  /\ bitboard \subseteq 0 .. 63
            /\ Len(toString16(bitboard)) <= 16
            /\ Len(padStart(toString16(bitboard), 16, "0")) = 16

\* After a call, one player holds the cell of bit 63, so that its word has 16
\* digits before padding, and the other player's word is padded.
C20_Witness ==
    /\ calls # <<>>
    /\ \E p \in {1, -1} :
          /\ Len(toString16(createBitboardFlipped(boardState, p))) = 16
          /\ Len(toString16(createBitboardFlipped(boardState, -p))) < 16

(***************************************************************************)
(* Piece counts, the table's lifetime, early play and gravity.             *)
(***************************************************************************)
\* The calls that were made on a column with an Empty cell.
PlacingCalls == { i \in 1 .. Len(moves) : ColumnOpen(heap[snapshots[i]], moves[i]) }

\* C21: the number of pieces equals the number of moves applied: the state
\* getStateFromMoves returns has length(appliedMoves) pieces, every valid
\* getNextState call after it adds one (k calls from the initial state give
\* k), and getNumPieces never exceeds 64.
C21_PiecesEqualMovesApplied ==
    /\ getNumPieces(replayTable[loaded].state) = Len(replayTable[loaded].appliedMoves)
    /\ getNumPieces(boardState)
          = Len(replayTable[loaded].appliedMoves) + Cardinality(PlacingCalls)
    /\ loaded = <<>> => getNumPieces(boardState) = Cardinality(PlacingCalls)
    /\ getNumPieces(boardState) <= 64

\* Valid calls filled the last cells of the board of the drawn game.
C21_Witness ==
    /\ Len(loaded) = Len(DrawGame) - MaxCalls
    /\ Cardinality(PlacingCalls) = MaxCalls
    /\ getNumPieces(boardState) = 64

\* C30: in every state reachable by valid moves, no Empty cell has an
\* occupied cell at a larger depth index in the same column.
C30_NoPieceBelowAnEmptyCell ==
    \A row \in Ys : \A col \in Xs : \A d \in Zs : \A e \in Zs :
        (boardState[d][row][col] = 0 /\ e > d) => boardState[e][row][col] = 0

\* C30, amended: no occupied cell has an Empty cell at a larger depth index
\* in the same column (pieces lie at the largest depth indices, depth 3 being
\* the bottom).
C30_NoEmptyCellBelowAPiece ==
    \A row \in Ys : \A col \in Xs : \A d \in Zs : \A e \in Zs :
        (boardState[d][row][col] # 0 /\ e > d) => boardState[e][row][col] # 0

\* After valid calls a column holds pieces at depths 3 and 2 and is Empty
\* above them.
C30_Witness ==
    /\ Cardinality(PlacingCalls) = MaxCalls
    /\ \E row \in Ys : \E col \in Xs :
          /\ boardState[3][row][col] # 0
          /\ boardState[2][row][col] # 0
          /\ boardState[1][row][col] = 0
          /\ boardState[0][row][col] = 0

\* Iteration k of the loop nest passes the end-cell test: its (start,
\* direction) pair is accepted and its mask handed to the set.
IterationAccepts(k) ==
    LET nd == Len(directions)
        z == k \div (rows * cols * nd)
        y == (k \div (cols * nd)) % rows
        x == (k \div nd) % cols
        dir == directions[(k % nd) + 1]
    IN  endInBounds(x + 3 * dir[1], y + 3 * dir[2], z + 3 * dir[3])

\* The iterations among the first n that accepted their pair.
AcceptedBefore(n) == { k \in 0 .. n - 1 : IterationAccepts(k) }

\* C27: during table generation each line is produced exactly once: at every
\* point of the loop nest over the 64 start cells and 13 directions, the
\* number of accepted (start, direction) pairs equals the number of distinct
\* masks, so the set never receives a mask it already holds.
C27_EachLineGeneratedOnce ==
    /\ Len(directions) = 13
    /\ IF TableBuilt
       THEN Cardinality(AcceptedBefore(genIterations)) = Len(winningPatterns)
       ELSE Cardinality(AcceptedBefore(genK)) = Len(genPatterns)

\* The loop nest is past its last accepted pair, with 76 masks in the set.
C27_Witness ==
    /\ ~TableBuilt
    /\ genK = genIterations
    /\ Len(genPatterns) = 76
    /\ Cardinality(AcceptedBefore(genK)) = 76

C28_NoTerminalStateBeforeSevenMoves ==
    /\ (loaded = <<>> /\ Cardinality(PlacingCalls) < 7)
          => /\ getValueAndTerminated(winningPatterns, boardState)[2] = FALSE
             /\ ~Terminal(boardState)
    /\ (loaded = <<>> /\ calls = <<5>>)
          => /\ getValueAndTerminated(winningPatterns, boardState)[2] = FALSE
             /\ getNumPieces(boardState) = 1

\* Six valid moves from the initial state have left PlayerOne three in a row
\* on the bottom layer with the fourth cell Empty.
C28_Witness ==
    /\ loaded = <<>>
    /\ calls = <<4, 4, 5, 5, 6, 6>>
    /\ Cardinality(PlacingCalls) = 6
    /\ boardState[3][1][3] = 0
    /\ \A x \in 0 .. 2 : boardState[3][1][x] = 1

\* C24: handlePlayerMove applies a move only when no request is in progress
\* (none of /api/new_game, /api/set_state, /api/ai_move is awaiting its
\* answer), the live position is viewed, the board is not terminal and the
\* column is not full; in every other case boardState, moveHistory and
\* currentMoveIndex are left unchanged.
C24_MoveOnlyWhenNoRequestInProgress ==
    [][\A column \in UIColumns :
          handlePlayerMove(column) =>
             IF /\ newGamePhase = "idle" /\ loadPhase = "idle" /\ aiPhase = "idle"
                /\ currentMoveIndex = Len(moveHistory)
                /\ ~Terminal(uiBoardState)
                /\ ColumnOpen(uiBoardState, column)
             THEN /\ moveHistory' = Append(moveHistory, column)
                  /\ currentMoveIndex' = currentMoveIndex + 1
                  /\ ChangedCells(uiBoardState, uiBoardState') # {}
             ELSE UNCHANGED <<uiBoardState, moveHistory, currentMoveIndex>>]_vars

\* C25: while /api/ai_move is awaiting its answer, the /api/set_state request
\* that requestAIMove sent before it has succeeded.
C25_AIRequestOnlyAfterSuccessfulSync == aiPhase = "move" => aiSyncOk

\* The steps in which checkGameOver runs: a player move that was applied, an
\* AI move that was received, a typed position that the server accepted.
CheckGameOverRan ==
    \/ \E column \in DrawColumns : handlePlayerMove(column) /\ moveHistory' # moveHistory
    \/ \E column \in DrawColumns : AIMoveOk(column)
    \/ LoadResponse /\ loadPhase = "ok"

\* C29: when checkGameOver runs on a full board without a completed line, it
\* logs "It's a draw!" and names no winner.
C29_DrawReportedOnFullBoardWithoutLine ==
    [][(CheckGameOverRan /\ BoardFull(uiBoardState') /\ ~CompletedLine(uiBoardState'))
          => statusMessage' = "It's a draw!"]_vars

\* The replay of the first currentMoveIndex entries of moveHistory.
ReplayOfShown ==
    getStateFromMoves(winningPatterns, SubSeq(moveHistory, 1, currentMoveIndex)).state

\* Where ArrowLeft followed by ArrowRight leads from the position shown.
LeftThenRight ==
    LET left == navigateHistoryTo(winningPatterns, moveHistory, currentMoveIndex,
                                  uiBoardState, -1)
    IN  navigateHistoryTo(winningPatterns, moveHistory, left.currentMoveIndex,
                          left.boardState, 1)

\* C26 (as stated): boardState is the replay of the first currentMoveIndex
\* entries of moveHistory, and ArrowLeft followed by ArrowRight returns to
\* the same position and index.
C26_ReplayAndLeftRightReturn ==
    /\ uiBoardState = ReplayOfShown
    /\ LeftThenRight.currentMoveIndex = currentMoveIndex
    /\ LeftThenRight.boardState = uiBoardState

\* C26 (amended): boardState is the replay of the first currentMoveIndex
\* entries of moveHistory, and from an index above 0 ArrowLeft followed by
\* ArrowRight returns to the same position and index; at index 0 of a
\* history that is not empty the two keys lead to index 1.
C26_ReplayAndLeftRightReturnAboveZero ==
    /\ uiBoardState = ReplayOfShown
    /\ currentMoveIndex > 0
          => /\ LeftThenRight.currentMoveIndex = currentMoveIndex
             /\ LeftThenRight.boardState = uiBoardState
    /\ (currentMoveIndex = 0 /\ moveHistory # <<>>)
          => LeftThenRight.currentMoveIndex = 1

\* The arrow keys have led into the middle of a history that a typed list and
\* a player move built.
C26_Witness ==
    /\ statusMessage = "Viewing move"
    /\ uiPlayed > 0
    /\ Len(moveHistory) > uiPlayed
    /\ currentMoveIndex > 0
    /\ currentMoveIndex < Len(moveHistory) - 1

\* The boards the caller holds that getValueAndTerminated reports terminal.
TerminalSnapshots ==
    { i \in 1 .. Len(snapshots) : getValueAndTerminated(winningPatterns, heap[snapshots[i]])[2] }

\* C31: getNextState is not refused on a terminal state, and once
\* getValueAndTerminated reports isTerminal = true for a state it reports it
\* for every state obtained from it by further getNextState calls.
C31_TerminalIsAbsorbing ==
    TerminalSnapshots # {}
       => getValueAndTerminated(winningPatterns, boardState)[2] = TRUE

\* A piece was added to a board with a completed line, and a call was made on
\* a full board.
C31_Witness ==
    /\ Len(snapshots) = 3
    /\ 2 \in TerminalSnapshots
    /\ \/ /\ CompletedLine(heap[snapshots[2]])
          /\ PieceCount(boardState, -1) = PieceCount(heap[snapshots[2]], -1) + 1
       \/ /\ BoardFull(heap[snapshots[2]])
          /\ ~threw

\* C32: every game terminates.  A state reached by valid moves made on
\* non-terminal states holds as many pieces as moves were made, at most 64;
\* while it is not terminal it has a valid column; and a terminal state is
\* reached.
C32_EveryGameTerminates ==
    /\ [](/\ getNumPieces(boardState) = Len(loaded) + Len(calls)
          /\ Len(loaded) + Len(calls) <= numCells
          /\ ~getValueAndTerminated(winningPatterns, boardState)[2]
                => \E action \in 0 .. numActions - 1 :
                      At(getValidMoves(boardState), action) = 1)
    /\ <>Terminal(boardState)

\* The game has gone on to the full board, 64 moves after the empty one.
C32_Witness ==
    /\ Len(loaded) + Len(calls) = numCells
    /\ Len(calls) = MaxEndgame
    /\ BoardFull(boardState)

\* C33: the two bitboards exported by getStateHexCode are disjoint and the
\* bits set in their union are as many as getNumPieces(state); so are the
\* two bitboards checkGameOver builds.
C33_BitboardsDisjointAndCountPieces ==
    LET code == getStateHexCode(boardState)
        one == HexBits(SubSeq(code, 1, 16))
        two == HexBits(SubSeq(code, 18, Len(code)))
        lastPlayerBitboard == createBitboard(boardState, -getCurrentPlayer(boardState))
        currentPlayerBitboard == createBitboard(boardState, getCurrentPlayer(boardState))
    IN  /\ one \cap two = {}
        /\ Cardinality(one \cup two) = getNumPieces(boardState)
        /\ lastPlayerBitboard \cap currentPlayerBitboard = {}
        /\ Cardinality(lastPlayerBitboard \cup currentPlayerBitboard) = getNumPieces(boardState)

\* Two calls have added a piece of each player to a loaded position.
C33_Witness ==
    /\ loaded = <<0, 5, 1, 5, 2, 5>>
    /\ Len(moves) = 2
    /\ getNumPieces(boardState) = 8
    /\ PieceCount(boardState, 1) = 4
    /\ PieceCount(boardState, -1) = 4

\* The board that a hex pair denotes: the cell of bit b of the first word is
\* PlayerOne's, that of bit b of the second word PlayerTwo's.
BoardOfHex(code) ==
    LET one == HexBits(SubSeq(code, 1, 16))
        two == HexBits(SubSeq(code, 18, Len(code)))
    IN  [z \in Zs |-> [y \in Ys |-> [x \in Xs |->
           IF exportBit(<<z, y, x>>) \in one THEN 1
           ELSE IF exportBit(<<z, y, x>>) \in two THEN -1 ELSE 0]]]

\* C34: a board with cells in {0, 1, -1} that has the same getStateHexCode
\* string as the board exported is that board, cell for cell, and the board
\* is reconstructed from the string.
C34_HexExportInjective ==
    Len(answers) = 1
       => /\ \A b \in ExportBoards : exportTable[b] = answers[1] => b = boardState
          /\ BoardOfHex(answers[1]) = boardState

\* The board exported holds a piece of PlayerOne at the top of a column
\* whose bottom cell is Empty, and a piece of PlayerTwo.
C34_Witness ==
    /\ Len(answers) = 1
    /\ boardState[0][0][0] = 1
    /\ boardState[3][0][0] = 0
    /\ boardState[1][2][3] = -1

\* A request that a handler sent, or is about to send after its delay,
\* awaits its answer.
RequestInFlight == newGamePhase # "idle" \/ aiPhase # "idle" \/ loadPhase # "idle"

\* The steps in which a handler takes the answer to its request.
RequestCompletes ==
    \/ \E ok \in BOOLEAN : NewGameResponse(ok)
    \/ \E column \in DrawColumns : AIMoveOk(column)
    \/ AIMoveError
    \/ LoadResponse

\* C35: while a request is in flight isRequestInProgress is true, and
\* boardState, moveHistory and currentMoveIndex are changed by no step but
\* the completion of a request.
C35_NoUpdateWhileRequestInFlight ==
    [][RequestInFlight
          => /\ isRequestInProgress
             /\ <<uiBoardState, moveHistory, currentMoveIndex>>'
                    # <<uiBoardState, moveHistory, currentMoveIndex>>
                   => RequestCompletes]_vars

\* A handler that had set isRequestInProgress returns for good.
HandlerEnds ==
    \/ NewGameAnswered
    \/ AIMoveAnswered
    \/ aiPhase = "delay" /\ aiPhase' = "idle"
    \/ LoadAnswered
    \/ movePhase.at # "idle" /\ movePhase'.at = "idle"

\* C36: every handler that has set isRequestInProgress to true ends, whatever
\* the answers to its requests, and sets it to false as it ends; so whenever
\* the flag is true it is false again later.
C36_FlagIsClearedInTheEnd ==
    /\ [][HandlerEnds => isRequestInProgress' = FALSE]_vars
    /\ (newGamePhase # "idle") ~> (newGamePhase = "idle")
    /\ (aiPhase # "idle") ~> (aiPhase = "idle")
    /\ (loadPhase # "idle") ~> (loadPhase = "idle")
    /\ (movePhase.at # "idle") ~> (movePhase.at = "idle")
    /\ isRequestInProgress ~> ~isRequestInProgress

\* C37: 0 <= currentMoveIndex <= moveHistory.length in every state of the
\* page; a step of navigateHistory past either end changes nothing, and any
\* other leads to an index in the range; and a move is appended to
\* moveHistory only when currentMoveIndex = moveHistory.length.
C37_IndexInRangeAndAppendAtLive ==
    [][/\ 0 <= currentMoveIndex /\ currentMoveIndex <= Len(moveHistory)
       /\ \A direction \in {-1, 1} :
             LET to == navigateHistoryTo(winningPatterns, moveHistory, currentMoveIndex,
                                         uiBoardState, direction)
             IN  /\ 0 <= to.currentMoveIndex /\ to.currentMoveIndex <= Len(moveHistory)
                 /\ (currentMoveIndex + direction \notin 0 .. Len(moveHistory))
                       => /\ to.currentMoveIndex = currentMoveIndex
                          /\ to.boardState = uiBoardState
       /\ (\E column \in 0 .. numActions - 1 : moveHistory' = Append(moveHistory, column))
             => currentMoveIndex = Len(moveHistory)]_vars

\* C38: the pieces on the screen are those of boardState, cell for cell,
\* whenever a handler has completed, the slider handlers included, also
\* after moves of the player that the server has not been told.
C38_RenderedBoardIsBoardState == displayedBoard = uiBoardState

\* A step of the arrow keys, or the completion of the load of a typed list,
\* with no other request in flight.
NavigationOrLoadEnds ==
    /\ newGamePhase = "idle" /\ aiPhase = "idle"
    /\ \/ loadPhase = "idle" /\ \E direction \in {-1, 1} : handleKeyDown(direction)
       \/ LoadResponse

\* C39: a step of the arrow keys or a load of a typed list that ends on the
\* live position with the game over there leaves the AI Move button disabled
\* and the New Game button enabled.
C39_GameOverKeepsAIMoveDisabled ==
    [][(/\ NavigationOrLoadEnds
        /\ currentMoveIndex' = Len(moveHistory')
        /\ Terminal(uiBoardState'))
          => aiMoveBtnDisabled' /\ ~newGameBtnDisabled']_vars

====
